---- MODULE Spec2Model ----
(***************************************************************************)
(* HLS session manager and stream dispatcher of dlna-movie-cast.           *)
(*                                                                         *)
(* State: the session map of HLSManager, the scratch directories under its *)
(* base directory, the transcoder child processes, the idle-GC goroutine   *)
(* and its ticker, and one record per in-flight HTTP request holding the   *)
(* handler's position and locals.                                          *)
(*                                                                         *)
(* Every critical section of hls.go (GetSession, the locked half of        *)
(* CreateSession, cleanupOldSessions, Stop) runs under m.mu from its first *)
(* to its last statement, so each is one atomic action.  The statements a  *)
(* handler runs between two critical sections are separate actions, so     *)
(* every interleaving of handlers, idle GC and Stop is explored.           *)
(***************************************************************************)
EXTENDS Integers, Sequences, FiniteSets, TLC

\* ---- bounds of the model ------------------------------------------------
NumRequests == 2      \* concurrent HTTP request tasks
NumMovies   == 1      \* movies in the library (ids 1..NumMovies)
MaxSessions == 2      \* session ids uuid.New() hands out in one run
MaxProcs    == 2      \* transcoder processes spawned in one run
MaxTail     == 6      \* tokens of a request path after /stream/{id}/hls/
MaxName     == 8      \* tokens of a segment name handed to CopySegment
MaxLibrary  == 3      \* movies in the library Browse pages over
MaxScans    == 3      \* scans asked for through /api/scan in one run
MaxChunks   == 3      \* chunks of output a transcoder writes to its pipe
MaxPage     == 2      \* page size of the control point that pages through it
PollsPerStep == 5     \* iterations of the wait-for-playlist loop taken in one step

\* ---- program constants --------------------------------------------------
CleanupInterval == 1  \* minutes between two ticks of the cleanup ticker
SessionTimeout  == 10 \* minutes of inactivity after which a session expires
ssdpMaxAge       == 1800   \* seconds
DeviceSweepEvery == 60     \* seconds between two sweeps of the device registry
ReadDeadline     == 1      \* seconds the listener's read may block
PlaylistPolls   == 30 \* iterations of the wait-for-playlist loop

Nil == 0              \* the nil pointer / "no value"

Requests   == 1..NumRequests
Library    == 1..NumMovies
UnknownID  == NumMovies + 1          \* a movie id the library does not hold
MovieIDs   == Library \cup {UnknownID}
SessionIDs == 1..MaxSessions
ProcIDs    == 1..MaxProcs

\* A string is a sequence of tokens: "/", "\" and "." are tokens of their own,
\* every other token is a run of characters holding none of them.
PlaylistFile == <<"playlist", ".", "m3u8">>
SegmentFile  == <<"segment_000", ".", "ts">>

VARIABLES
  sessions,     \* HLSManager.sessions: session id -> HLSSession
  dirs,         \* the file system under baseDir: session id -> files in <base>/<id>
  procs,        \* transcoder children ever started: handle -> [dir, alive]
  nextID,       \* the next id uuid.New() returns
  stopped,      \* HLSManager.stopChan is closed
  cleanupAlive, \* the cleanupRoutine goroutine has not returned
  tick,         \* ticker.C holds an unconsumed tick
  req,          \* per request: handler position and locals
  terminated,   \* history: ids of the sessions terminateSession has run on
  url,          \* r.URL.Path of the request ServeHTTP dispatches
  routed,       \* what ServeHTTP made of it: the handler chosen, or the answer
  opened,       \* the path CopySegment handed to os.Open (<<>>: none)
  goos,         \* the platform the server is built for
  copyName,  \* CopySegment called on its own: the name argument
  copied,       \* ... and what the call returned ("none": not called)
  streamReq,    \* a request for /stream/{id}: movie id, query values, codec
  served,       \* ... and the way ServeHTTP served it ("none": not yet)
  devices,      \* SSDPServer.devices: uuid -> DLNADevice
  ssdpIn,       \* the datagram the listener has read and not yet handled
  ssdpOut,      \* the datagrams the listener sent while handling the last one
  ssdpElapsed,  \* seconds since the device sweeper's ticker fired
  ssdpTick,     \* that ticker holds an unconsumed tick
  mainPc,       \* main: where the server is in its life
  adv,          \* the advertise goroutine: position, NTS and next type of its block
  advSent,      \* the NOTIFYs of the block the advertiser is sending or sent last
  advTick,      \* the advertiser's ticker holds an unconsumed tick
  ssdpStopChan, \* SSDPServer.stopChan is closed
  httpOpen,     \* the HTTP listener is open
  movies,       \* Library.movies: the ids in the map Browse pages over
  browseReq,    \* a Browse of "movies": StartingIndex and RequestedCount as sent
  browseRes,    \* ... and its answer (or the panic that took its place)
  pager,        \* a control point fetching page after page: page size, items so far
  updateID,     \* ContentDirectoryService.updateID (uint32)
  scanTasks,    \* the goroutines /api/scan has started: position and register
  cast,         \* /api/cast: the request, the handler's position, its answer
  soapLog,      \* the SOAP commands sent to renderers, with the status answered
  pipe,         \* an MP4-pipe request: handler position, the child, the client
  procCtx,      \* per transcoder child: the context it was started with
  cancelled,    \* the requests whose context is done
  hms,          \* a duration or position and its HH:MM:SS renderings
  ffargs,       \* one call of buildFFmpegArgs: the options and the arguments
  ssdpRun,      \* SSDPServer: running, conn, ctx, and where listener and sweeper are
  hlsQuery,     \* per request task: the subtitle settings of its playlist requests
  procQuery     \* per transcoder child: the settings its options were made from

routeVars == <<url, routed, opened, goos>>
copyVars  == <<copyName, copied>>
\* The variables outside the session manager and the stream dispatcher.
streamVars == <<streamReq, served>>
ssdpVars   == <<devices, ssdpIn, ssdpOut, ssdpElapsed, ssdpTick>>
mainVars   == <<mainPc, adv, advSent, advTick, ssdpStopChan, httpOpen>>
browseVars == <<movies, browseReq, browseRes, pager>>
scanVars   == <<updateID, scanTasks>>
castVars   == <<cast, soapLog>>
ctxVars    == <<procCtx, cancelled>>
auxVars    == <<hms, ffargs, ssdpRun, hlsQuery, procQuery>>
restVars   == <<browseVars, scanVars, castVars, pipe, ctxVars, auxVars>>
otherVars == <<copyVars, streamVars, ssdpVars, mainVars, restVars>>
hlsVars == <<sessions, dirs, procs, nextID, stopped, cleanupAlive, tick, req, terminated>>
vars == <<sessions, dirs, procs, nextID, stopped, cleanupAlive, tick, req, terminated,
          routeVars, otherVars>>

\* ---- the request record ---------------------------------------------------
\* pc: the handler's position; movieID, session, process, i: the handler's
\* locals (session holds the id of the *HLSSession the handler points to);
\* status: the response written, kept until the task takes its next request.
NoRequest == [pc |-> "idle", movieID |-> Nil, session |-> Nil, process |-> Nil,
              i |-> 0, status |-> "none"]

Respond(r, st) == req' = [req EXCEPT ![r] = [NoRequest EXCEPT !.movieID = req[r].movieID, !.status = st]]

\* ---- HLSManager ------------------------------------------------------------
\* The scan `for _, s := range m.sessions { if s.MovieID == movieID ...`.
Lookup(movieID) == {id \in DOMAIN sessions : sessions[id].MovieID = movieID}

\* An access that leaves LastAccessed as it was.
Touch_Nothing(id) == sessions

\* s.LastAccessed = time.Now().  LastAccessed is kept as the number of ticker
\* periods elapsed since the access (now - LastAccessed), which is all the
\* cutoff test of cleanupOldSessions reads; it saturates above SessionTimeout.
Touch(id) == [sessions EXCEPT ![id].LastAccessed = 0]

\* os.RemoveAll(s.Dir) for every session of S.
RemoveAll(S) == [d \in DOMAIN dirs \ S |-> dirs[d]]

\* s.Process.Kill() for every session of S whose Process is not nil.
KillAll(S) ==
  [p \in DOMAIN procs |->
     IF \E id \in S : sessions[id].Process = p
     THEN [procs[p] EXCEPT !.alive = FALSE] ELSE procs[p]]

\* terminateSession(s) for every s of S: kill the stored handle, remove the
\* scratch directory.
terminateSession(S) ==
  /\ procs' = KillAll(S)
  /\ dirs' = RemoveAll(S)
  /\ terminated' = terminated \cup S

\* The cutoff test with Before replaced by "not After": a session idle for
\* exactly the timeout counts as expired.
Expired_AtCutoff == {id \in DOMAIN sessions : sessions[id].LastAccessed >= SessionTimeout}

\* The sessions the sweep finds expired: s.LastAccessed.Before(now - 10 min).
Expired == {id \in DOMAIN sessions : sessions[id].LastAccessed > SessionTimeout}

\* The sweep without `delete(m.sessions, id)`: expired sessions are torn down
\* but stay in the map, as in Stop.
cleanupOldSessions_NoDelete ==
  /\ cleanupAlive /\ tick
  /\ tick' = FALSE
  /\ terminateSession(Expired)
  /\ UNCHANGED <<routeVars, otherVars, sessions, nextID, stopped, cleanupAlive, req>>

\* cleanupRoutine, case <-ticker.C: cleanupOldSessions().
cleanupOldSessions ==
  /\ cleanupAlive /\ tick
  /\ tick' = FALSE
  /\ terminateSession(Expired)
  /\ sessions' = [id \in DOMAIN sessions \ Expired |-> sessions[id]]
  /\ UNCHANGED <<routeVars, otherVars, nextID, stopped, cleanupAlive, req>>

\* cleanupRoutine, case <-m.stopChan: return.  When a tick is pending too,
\* select takes either case, so one more sweep may run after Stop.
cleanupRoutineReturn ==
  /\ cleanupAlive /\ stopped
  /\ cleanupAlive' = FALSE
  /\ UNCHANGED <<routeVars, otherVars, sessions, dirs, procs, nextID, stopped, tick, req, terminated>>

\* Stop: close(m.stopChan), then terminateSession on every session of the map.
\* The map itself is left as it is.
Stop ==
  /\ ~stopped
  /\ stopped' = TRUE
  /\ terminateSession(DOMAIN sessions)
  /\ UNCHANGED <<routeVars, otherVars, sessions, nextID, cleanupAlive, tick, req>>

\* One ticker period passes: every session grows one period older and the
\* ticker puts a tick in its channel (capacity 1).
Advance ==
  /\ sessions' = [id \in DOMAIN sessions |->
                    [sessions[id] EXCEPT !.LastAccessed =
                       IF @ > SessionTimeout THEN @ ELSE @ + CleanupInterval]]
  /\ tick' = TRUE
  /\ UNCHANGED <<routeVars, otherVars, dirs, procs, nextID, stopped, cleanupAlive, req, terminated>>

\* ---- the transcoder child (opaque) ----------------------------------------
\* A running ffmpeg writes its first segment and the playlist into its output
\* directory, if that directory still exists.
ffmpegWrite(p) ==
  /\ procs[p].alive
  /\ procs[p].dir \in DOMAIN dirs
  /\ dirs[procs[p].dir] # {PlaylistFile, SegmentFile}
  /\ dirs' = [dirs EXCEPT ![procs[p].dir] = {PlaylistFile, SegmentFile}]
  /\ UNCHANGED <<routeVars, otherVars, sessions, procs, nextID, stopped, cleanupAlive, tick, req, terminated>>

\* ---- the request for /stream/{id} -----------------------------------------
\* Query values and the codec are sequences of characters.
NoStreamReq == [movieID |-> Nil, transcode |-> <<>>, subtitle |-> <<>>,
                subtitle_index |-> <<>>, format |-> <<>>, codec |-> <<>>]
StreamIdle == streamReq = NoStreamReq /\ served = "none"

\* ---- the SSDP server at rest -------------------------------------------------
NoValue    == <<>>
NoDevices  == [u \in {} |-> Nil]
NoDatagram == [start |-> NoValue, from |-> "none", headers |-> [k \in {} |-> NoValue]]
SsdpIdle ==
  /\ devices = NoDevices /\ ssdpIn = NoDatagram /\ ssdpOut = <<>>
  /\ ssdpElapsed = 0 /\ ssdpTick = FALSE

\* ---- main and the advertiser, started ----------------------------------------
\* The server runs: ssdp.Start has started the advertiser, which is about to
\* send its first block, and the HTTP listener is open.
AdvStart == [pc |-> "sendNotify", nts |-> "ssdp:alive", k |-> 1]
MainStarted ==
  /\ mainPc = "running" /\ adv = AdvStart /\ advSent = <<>> /\ advTick = FALSE
  /\ ssdpStopChan = FALSE /\ httpOpen = TRUE

\* ---- the rest of the server, at rest -----------------------------------------
\* No Browse was made.
NoBrowse == [called |-> FALSE, panic |-> FALSE, items |-> <<>>,
             NumberReturned |-> 0, TotalMatches |-> 0]
BrowseIdle ==
  /\ movies = {} /\ browseReq = [start |-> 0, count |-> 0]
  /\ browseRes = NoBrowse /\ pager = [k |-> 0, got |-> <<>>]

\* NewContentDirectoryService: updateID: 1; no scan was asked for.
ScanIdle == updateID = 1 /\ scanTasks = <<>>

\* No /api/cast request.
NoCast == [pc |-> "idle", method |-> "none"]
CastIdle == cast = NoCast /\ soapLog = <<>>

\* No MP4-pipe request.
NoPipe == [pc |-> "idle", child |-> "none", ctxDone |-> FALSE,
           produced |-> 0, sent |-> 0, code |-> 0]
PipeIdle == pipe = NoPipe

\* The contexts a transcoder is started with: context.Background(), or the
\* context of request task r.
Background == <<>>
RequestContext(r) == <<r>>

\* Every transcoder child of the session manager runs under
\* context.Background(); no request context is done.
CtxIdle == procCtx = [p \in DOMAIN procs |-> Background] /\ cancelled = {}

NoHms == [pc |-> "idle", origin |-> "none", Duration |-> 0, text |-> <<>>,
          seconds |-> 0, position |-> <<>>, Target |-> <<>>]
HmsIdle == hms = NoHms

\* TranscodeOptions as DefaultOptions returns them on a host without
\* /dev/mpp_service (the bitrates are configuration and stay as they are);
\* buildFFmpegArgs has not been called.
NoPath == <<>>
DefaultOptions ==
  [VideoCodec |-> "h264", Width |-> 0, Height |-> 0, SubtitlePath |-> NoPath,
   SubtitleIndex |-> -1, StartTime |-> 0, Duration |-> 0,
   UseHardwareAccel |-> FALSE, Format |-> "", OutputPath |-> NoPath]
NoArgs == [pc |-> "idle", opts |-> DefaultOptions, args |-> <<>>]
ArgsIdle == ffargs = NoArgs

\* SSDPServer.Start has returned: conn is open, running is true, the start
\* context is live, the listener is at the head of its loop and the sweeper
\* at its select.  waited: the seconds the listener's read has been blocked;
\* since: the seconds since the shutdown began.
Started == [listen |-> "for", sweep |-> "select", running |-> TRUE, connOpen |-> TRUE,
            ctxDone |-> FALSE, waited |-> 0, since |-> 0]
RunIdle == ssdpRun = Started

\* The playlist requests carry no subtitle and no subtitle_index, and every
\* transcoder there is was started for such a request.
NoQuery == [subtitle |-> <<>>, subtitle_index |-> <<>>]
QueryIdle ==
  /\ hlsQuery = [r \in Requests |-> NoQuery]
  /\ procQuery = [p \in DOMAIN procs |-> NoQuery]

RestIdle == BrowseIdle /\ ScanIdle /\ CastIdle /\ PipeIdle /\ CtxIdle /\ HmsIdle /\ ArgsIdle /\ RunIdle /\ QueryIdle

\* ---- strings and paths -------------------------------------------------------
Slash  == <<"/">>
Dot    == <<".">>
DotDot == <<".", ".">>

\* strings.Trim(s, "/")
RECURSIVE TrimLeft(_)
TrimLeft(s) == IF s # <<>> /\ Head(s) = "/" THEN TrimLeft(Tail(s)) ELSE s

RECURSIVE TrimRight(_)
TrimRight(s) ==
  IF s # <<>> /\ s[Len(s)] = "/" THEN TrimRight(SubSeq(s, 1, Len(s) - 1)) ELSE s

Trim(s) == TrimRight(TrimLeft(s))

\* strings.Split(s, sep), for a set of separator tokens: the pieces between
\* the separators, empty ones kept.
RECURSIVE SplitOn(_, _)
SplitOn(s, seps) ==
  IF \A i \in 1..Len(s) : s[i] \notin seps
  THEN <<s>>
  ELSE LET k == CHOOSE i \in 1..Len(s) :
                  s[i] \in seps /\ \A j \in 1..(i - 1) : s[j] \notin seps
       IN <<SubSeq(s, 1, k - 1)>> \o SplitOn(SubSeq(s, k + 1, Len(s)), seps)

\* strings.Split(s, "/")
Split(s) == SplitOn(s, {"/"})

\* strings.HasSuffix(s, suffix)
HasSuffix(s, suffix) ==
  Len(s) >= Len(suffix) /\ SubSeq(s, Len(s) - Len(suffix) + 1, Len(s)) = suffix

\* Package path/filepath.  os.PathSeparator, and what os.IsPathSeparator
\* accepts: on windows both slashes separate.
Separator      == IF goos = "windows" THEN <<"\\">> ELSE Slash
PathSeparators == IF goos = "windows" THEN {"/", "\\"} ELSE {"/"}

IsRooted(s) == s # <<>> /\ Head(s) \in PathSeparators

\* filepath.IsAbs(s).  On windows a path is absolute only behind a volume
\* name, and the strings here hold no ":" and no leading double separator.
IsAbs(s) == goos # "windows" /\ IsRooted(s)

\* filepath.Clean(s): drop empty and "." elements, let ".." cancel the element
\* before it (and vanish at the root), join again with the platform's
\* separator; the empty result is ".".
IsElement(c) == c # <<>> /\ c # Dot

RECURSIVE Resolve(_, _, _)
Resolve(elems, out, rooted) ==
  IF elems = <<>> THEN out
  ELSE LET c == Head(elems) IN
       IF c # DotDot THEN Resolve(Tail(elems), Append(out, c), rooted)
       ELSE IF out # <<>> /\ out[Len(out)] # DotDot
            THEN Resolve(Tail(elems), SubSeq(out, 1, Len(out) - 1), rooted)
            ELSE IF rooted THEN Resolve(Tail(elems), out, rooted)
                 ELSE Resolve(Tail(elems), Append(out, c), rooted)

RECURSIVE JoinElems(_, _)
JoinElems(elems, sep) ==
  IF elems = <<>> THEN <<>>
  ELSE IF Len(elems) = 1 THEN elems[1]
       ELSE elems[1] \o sep \o JoinElems(Tail(elems), sep)

Clean(s) ==
  LET elems == SelectSeq(SplitOn(s, PathSeparators), IsElement)
      body  == JoinElems(Resolve(elems, <<>>, IsRooted(s)), Separator)
      res   == IF IsRooted(s) THEN Separator \o body ELSE body
  IN IF res = <<>> THEN Dot ELSE res

\* HLSManager.baseDir as NewStreamHandler picks it (/dev/shm exists on linux
\* only), and filepath.Join(m.baseDir, sessionID).
BaseDir ==
  IF goos = "linux" THEN <<"/", "dev", "/", "shm", "/", "dlna-movie-cast-hls">>
  ELSE <<"/", "tmp", "/", "dlna-movie-cast-hls">>
SessionDir(id) == Clean(BaseDir \o Separator \o <<ToString(id)>>)

\* CopySegment up to os.Open: the path it opens, or <<>> when the name is
\* refused with os.ErrPermission.
SegmentPath(sessionID, segmentName) ==
  LET cleanName == Clean(segmentName) IN
  IF cleanName # segmentName \/ IsAbs(segmentName) \/ cleanName = DotDot
  THEN <<>>
  ELSE Clean(BaseDir \o Separator \o <<ToString(sessionID)>> \o Separator \o cleanName)

\* os.Open(path) succeeds: path names a file of an existing session directory.
FileExists(path) ==
  \E id \in DOMAIN dirs : \E f \in dirs[id] : path = SessionDir(id) \o Separator \o f

\* ---- StreamHandler.serveHLSPlaylist -----------------------------------------
\* The handler without the library lookup: a miss of GetSession goes straight
\* to CreateSession.
serveHLSPlaylist_NoLookup(r, m) ==
  /\ req[r].pc = "idle"
  /\ IF Lookup(m) # {}
     THEN \E s \in Lookup(m) :
            /\ sessions' = Touch(s)
            /\ req' = [req EXCEPT ![r] = [NoRequest EXCEPT !.pc = "check",
                                            !.movieID = m, !.session = s]]
     ELSE /\ sessions' = sessions
          /\ req' = [req EXCEPT ![r] = [NoRequest EXCEPT !.pc = "CreateSession",
                                            !.movieID = m]]
  /\ UNCHANGED <<routeVars, otherVars, dirs, procs, nextID, stopped, cleanupAlive, tick, terminated>>

\* A request for /stream/{m}/hls/playlist.m3u8 arrives: GetSession(m), and on
\* nil the library lookup (the library does not change in this model).
serveHLSPlaylist(r, m) ==
  /\ req[r].pc = "idle"
  /\ IF Lookup(m) # {}
     THEN \E s \in Lookup(m) :
            /\ sessions' = Touch(s)
            /\ req' = [req EXCEPT ![r] = [NoRequest EXCEPT !.pc = "check",
                                            !.movieID = m, !.session = s]]
     ELSE /\ sessions' = sessions
          /\ IF m \in Library
             THEN req' = [req EXCEPT ![r] = [NoRequest EXCEPT !.pc = "CreateSession",
                                               !.movieID = m]]
             ELSE req' = [req EXCEPT ![r] = [NoRequest EXCEPT !.movieID = m,
                                               !.status = "404 Movie not found"]]
  /\ UNCHANGED <<routeVars, otherVars, dirs, procs, nextID, stopped, cleanupAlive, tick, terminated>>

\* CreateSession, first half: `if s := m.GetSession(movieID); s != nil { return s, nil }`.
CreateSession(r) ==
  /\ req[r].pc = "CreateSession"
  /\ IF Lookup(req[r].movieID) # {}
     THEN \E s \in Lookup(req[r].movieID) :
            /\ sessions' = Touch(s)
            /\ req' = [req EXCEPT ![r].pc = "StartHLSTranscode", ![r].session = s]
     ELSE /\ sessions' = sessions
          /\ req' = [req EXCEPT ![r].pc = "CreateSessionLocked"]
  /\ UNCHANGED <<routeVars, otherVars, dirs, procs, nextID, stopped, cleanupAlive, tick, terminated>>

\* CreateSession without the double check under the lock: allocate whenever
\* the first, unlocked-between lookup missed.
CreateSessionLocked_NoDoubleCheck(r) ==
  /\ req[r].pc = "CreateSessionLocked"
  /\ nextID <= MaxSessions
  /\ nextID' = nextID + 1
  /\ dirs' = [d \in DOMAIN dirs \cup {nextID} |-> IF d = nextID THEN {} ELSE dirs[d]]
  /\ sessions' = [id \in DOMAIN sessions \cup {nextID} |->
                    IF id = nextID
                    THEN [MovieID |-> req[r].movieID, LastAccessed |-> 0, Process |-> Nil]
                    ELSE sessions[id]]
  /\ req' = [req EXCEPT ![r].pc = "StartHLSTranscode", ![r].session = nextID]
  /\ UNCHANGED <<routeVars, otherVars, procs, stopped, cleanupAlive, tick, terminated>>

\* CreateSession, second half, under m.mu: the double check, then uuid.New(),
\* os.MkdirAll (which may fail) and the insert.
CreateSessionLocked(r) ==
  /\ req[r].pc = "CreateSessionLocked"
  /\ IF Lookup(req[r].movieID) # {}
     THEN \E s \in Lookup(req[r].movieID) :
            /\ req' = [req EXCEPT ![r].pc = "StartHLSTranscode", ![r].session = s]
            /\ UNCHANGED <<sessions, dirs, nextID>>
     ELSE /\ nextID <= MaxSessions
          /\ nextID' = nextID + 1
          /\ \/ /\ dirs' = [d \in DOMAIN dirs \cup {nextID} |->
                              IF d = nextID THEN {} ELSE dirs[d]]
                /\ sessions' = [id \in DOMAIN sessions \cup {nextID} |->
                                  IF id = nextID
                                  THEN [MovieID |-> req[r].movieID, LastAccessed |-> 0,
                                        Process |-> Nil]
                                  ELSE sessions[id]]
                /\ req' = [req EXCEPT ![r].pc = "StartHLSTranscode", ![r].session = nextID]
             \/ /\ Respond(r, "500 Failed to create HLS session")
                /\ UNCHANGED <<sessions, dirs>>
  /\ UNCHANGED <<routeVars, otherVars, procs, stopped, cleanupAlive, tick, terminated>>

\* StartHLSTranscode handed r.Context() instead of context.Background().
StartHLSTranscode_RequestContext(r) ==
  /\ req[r].pc = "StartHLSTranscode"
  /\ \/ /\ Len(procs) < MaxProcs
        /\ procs' = Append(procs, [dir |-> req[r].session, alive |-> TRUE])
        /\ procCtx' = Append(procCtx, RequestContext(r))
        /\ procQuery' = Append(procQuery, hlsQuery[r])
        /\ req' = [req EXCEPT ![r].pc = "StoreProcess", ![r].process = Len(procs) + 1]
     \/ /\ Respond(r, "500 Failed to start HLS transcoding")
        /\ UNCHANGED <<procs, procCtx, procQuery>>
  /\ UNCHANGED <<routeVars, copyVars, streamVars, ssdpVars, mainVars,
                 browseVars, scanVars, castVars, pipe, cancelled,
                 hms, ffargs, ssdpRun, hlsQuery,
                 sessions, dirs, nextID, stopped, cleanupAlive, tick, terminated>>

\* h.transcoder.StartHLSTranscode(ctx, movie, opts) with opts.OutputPath =
\* session.Dir and the subtitle options made of the request's query:
\* cmd.Start() starts a child writing into that directory, or fails.
\* ctx is context.Background(), "so transcode doesn't stop when request ends".
StartHLSTranscode(r) ==
  /\ req[r].pc = "StartHLSTranscode"
  /\ \/ /\ Len(procs) < MaxProcs
        /\ procs' = Append(procs, [dir |-> req[r].session, alive |-> TRUE])
        /\ procCtx' = Append(procCtx, Background)
        /\ procQuery' = Append(procQuery, hlsQuery[r])
        /\ req' = [req EXCEPT ![r].pc = "StoreProcess", ![r].process = Len(procs) + 1]
     \/ /\ Respond(r, "500 Failed to start HLS transcoding")
        /\ UNCHANGED <<procs, procCtx, procQuery>>
  /\ UNCHANGED <<routeVars, copyVars, streamVars, ssdpVars, mainVars,
                 browseVars, scanVars, castVars, pipe, cancelled,
                 hms, ffargs, ssdpRun, hlsQuery,
                 sessions, dirs, nextID, stopped, cleanupAlive, tick, terminated>>

\* session.Process = process, written through the handler's pointer without
\* m.mu.  A session already deleted from the map is reachable by no one else,
\* so the write to it is not kept.
StoreProcess(r) ==
  /\ req[r].pc = "StoreProcess"
  /\ sessions' = IF req[r].session \in DOMAIN sessions
                 THEN [sessions EXCEPT ![req[r].session].Process = req[r].process]
                 ELSE sessions
  /\ req' = [req EXCEPT ![r].pc = "WaitPlaylist", ![r].process = Nil, ![r].i = 0]
  /\ UNCHANGED <<routeVars, otherVars, dirs, procs, nextID, stopped, cleanupAlive, tick, terminated>>

\* os.Stat(h.hlsManager.GetPlaylistPath(id)) succeeds.
PlaylistExists(id) == id \in DOMAIN dirs /\ PlaylistFile \in dirs[id]

\* `for i := 0; i < 30; i++`: break when the playlist is there, else sleep
\* 500 ms and count; the loop ends when the count reaches 30.  i is the loop's
\* own variable and is gone once the loop is left.  An iteration that does not
\* see the playlist changes nothing but i, and one step takes up to
\* PollsPerStep such iterations in a row: what the first of them does not see,
\* the others, with no step of anyone else in between, do not see either.
WaitPlaylist(r) ==
  /\ req[r].pc = "WaitPlaylist"
  /\ IF PlaylistExists(req[r].session)
     THEN req' = [req EXCEPT ![r].pc = "check", ![r].i = 0]
     ELSE IF req[r].i + PollsPerStep < PlaylistPolls
          THEN req' = [req EXCEPT ![r].i = @ + PollsPerStep]
          ELSE req' = [req EXCEPT ![r].pc = "check", ![r].i = 0]
  /\ UNCHANGED <<routeVars, otherVars, sessions, dirs, procs, nextID, stopped, cleanupAlive, tick, terminated>>

\* The playlist handler without the final existence check: it always serves.
PlaylistCheck_NoStat(r) ==
  /\ req[r].pc = "check"
  /\ Respond(r, "200")
  /\ UNCHANGED <<routeVars, otherVars, sessions, dirs, procs, nextID, stopped, cleanupAlive, tick, terminated>>

\* The final os.Stat of the playlist path: 503 when it does not exist, else
\* http.ServeFile.
PlaylistCheck(r) ==
  /\ req[r].pc = "check"
  /\ IF PlaylistExists(req[r].session)
     THEN Respond(r, "200")
     ELSE Respond(r, "503 Playlist not ready yet")
  /\ UNCHANGED <<routeVars, otherVars, sessions, dirs, procs, nextID, stopped, cleanupAlive, tick, terminated>>

\* The segment handler as a get-or-create: a miss inserts a session for the
\* movie instead of answering 404.
serveHLSSegment_GetOrCreate(r, m) ==
  /\ req[r].pc = "idle"
  /\ IF Lookup(m) # {}
     THEN \E s \in Lookup(m) :
            /\ sessions' = Touch(s)
            /\ req' = [req EXCEPT ![r] = [NoRequest EXCEPT !.pc = "CopySegment",
                                            !.movieID = m, !.session = s]]
            /\ UNCHANGED <<dirs, nextID>>
     ELSE /\ nextID <= MaxSessions
          /\ nextID' = nextID + 1
          /\ dirs' = [d \in DOMAIN dirs \cup {nextID} |-> IF d = nextID THEN {} ELSE dirs[d]]
          /\ sessions' = [id \in DOMAIN sessions \cup {nextID} |->
                            IF id = nextID
                            THEN [MovieID |-> m, LastAccessed |-> 0, Process |-> Nil]
                            ELSE sessions[id]]
          /\ req' = [req EXCEPT ![r] = [NoRequest EXCEPT !.pc = "CopySegment",
                                          !.movieID = m, !.session = nextID]]
  /\ UNCHANGED <<routeVars, otherVars, procs, stopped, cleanupAlive, tick, terminated>>

\* ---- StreamHandler.serveHLSSegment ------------------------------------------
\* A request for /stream/{m}/hls/segment_000.ts arrives: GetSession(m).
serveHLSSegment(r, m) ==
  /\ req[r].pc = "idle"
  /\ IF Lookup(m) # {}
     THEN \E s \in Lookup(m) :
            /\ sessions' = Touch(s)
            /\ req' = [req EXCEPT ![r] = [NoRequest EXCEPT !.pc = "CopySegment",
                                            !.movieID = m, !.session = s]]
     ELSE /\ sessions' = sessions
          /\ req' = [req EXCEPT ![r] = [NoRequest EXCEPT !.movieID = m,
                                          !.status = "404 Session expired"]]
  /\ UNCHANGED <<routeVars, otherVars, dirs, procs, nextID, stopped, cleanupAlive, tick, terminated>>

\* h.hlsManager.CopySegment(session.ID, filename, w) for the request's
\* filename, segment_000.ts: any error is answered 404 "Segment not found".
CopySegment(r) ==
  /\ req[r].pc = "CopySegment"
  /\ LET path == SegmentPath(req[r].session, SegmentFile) IN
     IF path # <<>> /\ FileExists(path)
     THEN Respond(r, "200")
     ELSE Respond(r, "404 Segment not found")
  /\ UNCHANGED <<routeVars, otherVars, sessions, dirs, procs, nextID, stopped, cleanupAlive, tick, terminated>>

\* ---- the system -----------------------------------------------------------
\* NewHLSManager: empty map, wiped base directory, cleanup goroutine started.
Init ==
  /\ sessions = <<>>
  /\ dirs = <<>>
  /\ procs = <<>>
  /\ nextID = 1
  /\ stopped = FALSE
  /\ cleanupAlive = TRUE
  /\ tick = FALSE
  /\ req = [r \in Requests |-> NoRequest]
  /\ terminated = {}
  /\ url = <<>>
  /\ routed = "none"
  /\ opened = <<>>
  /\ goos = "linux"
  /\ copyName = <<>>
  /\ copied = "none"
  /\ StreamIdle
  /\ SsdpIdle
  /\ MainStarted
  /\ RestIdle

\* The steps of the system when the request tasks of R serve requests.
NextOf(R) ==
  \/ \E r \in R, m \in MovieIDs : serveHLSPlaylist(r, m)
  \/ \E r \in R : CreateSession(r)
  \/ \E r \in R : CreateSessionLocked(r)
  \/ \E r \in R : StartHLSTranscode(r)
  \/ \E r \in R : StoreProcess(r)
  \/ \E r \in R : WaitPlaylist(r)
  \/ \E r \in R : PlaylistCheck(r)
  \/ \E r \in R, m \in MovieIDs : serveHLSSegment(r, m)
  \/ \E r \in R : CopySegment(r)
  \/ cleanupOldSessions
  \/ cleanupRoutineReturn
  \/ Stop
  \/ Advance
  \/ \E p \in ProcIDs : p \in DOMAIN procs /\ ffmpegWrite(p)

Next == NextOf(Requests)

Spec == Init /\ [][Next]_vars

\* The same system with one request task, and the scheduling the runtime
\* gives the manager: time passes (the ticker keeps firing) and the cleanup
\* goroutine, once a tick is in its channel, gets m.mu and sweeps.
LiveNext == NextOf({1})

LiveSpec ==
  /\ Init /\ [][LiveNext]_vars
  /\ WF_vars(Advance)
  /\ WF_vars(cleanupOldSessions)

\* The request tasks alone, each renderer with subtitle settings of its own in
\* the query of its playlist requests, while no ticker period passes and Stop
\* is not called.
Queries ==
  {NoQuery,
   [subtitle |-> <<>>, subtitle_index |-> <<"2">>],
   [subtitle |-> <<"/", "s", "r", "t">>, subtitle_index |-> <<>>]}

ReuseInit ==
  /\ sessions = <<>> /\ dirs = <<>> /\ procs = <<>> /\ nextID = 1
  /\ stopped = FALSE /\ cleanupAlive = TRUE /\ tick = FALSE
  /\ req = [r \in Requests |-> NoRequest] /\ terminated = {}
  /\ url = <<>> /\ routed = "none" /\ opened = <<>> /\ goos = "linux"
  /\ copyName = <<>> /\ copied = "none"
  /\ StreamIdle /\ SsdpIdle /\ MainStarted
  /\ BrowseIdle /\ ScanIdle /\ CastIdle /\ PipeIdle /\ CtxIdle /\ HmsIdle /\ ArgsIdle /\ RunIdle
  /\ hlsQuery \in [Requests -> Queries]
  /\ procQuery = <<>>

ReuseNext ==
  \/ \E r \in Requests, m \in MovieIDs : serveHLSPlaylist(r, m)
  \/ \E r \in Requests : CreateSession(r)
  \/ \E r \in Requests : CreateSessionLocked(r)
  \/ \E r \in Requests : StartHLSTranscode(r)
  \/ \E r \in Requests : StoreProcess(r)
  \/ \E r \in Requests : WaitPlaylist(r)
  \/ \E r \in Requests : PlaylistCheck(r)
  \/ \E p \in ProcIDs : p \in DOMAIN procs /\ ffmpegWrite(p)

ReuseSpec == ReuseInit /\ [][ReuseNext]_vars

\* ---- StreamHandler.ServeHTTP ------------------------------------------------
\* The request paths of the dispatcher: /stream/{id}/hls/ followed by any
\* string of at most MaxTail tokens.
TailTokens == {"/", "\\", ".", "segment_000", "ts", "m3u8"}
Tails == UNION {[1..n -> TailTokens] : n \in 0..MaxTail}
HLSPrefix(m) == <<"/", "stream", "/", ToString(m), "/", "hls", "/">>

\* parts := strings.Split(strings.Trim(r.URL.Path, "/"), "/")
RouteParts(path) == Split(Trim(path))

\* ServeHTTP on r.URL.Path = url.  A request dispatched to serveHLSSegment is
\* served to its end here (GetSession, then CopySegment up to os.Open); for
\* the playlist handler and the plain /stream/{id} route, whose steps are the
\* actions above, the dispatch alone is recorded.
ServeHTTP ==
  /\ routed = "none"
  /\ LET parts    == RouteParts(url)
         movieID  == parts[2]
         filename == parts[4]
         found    == {id \in DOMAIN sessions : <<ToString(sessions[id].MovieID)>> = movieID}
     IN
     IF Len(parts) < 2
     THEN routed' = "400 Invalid stream path" /\ UNCHANGED <<sessions, opened>>
     ELSE IF ~(Len(parts) >= 3 /\ parts[3] = <<"hls">>)
     THEN routed' = "stream" /\ UNCHANGED <<sessions, opened>>
     ELSE IF Len(parts) < 4
     THEN routed' = "400 Invalid HLS path" /\ UNCHANGED <<sessions, opened>>
     ELSE IF HasSuffix(filename, <<".", "m3u8">>)
     THEN routed' = "serveHLSPlaylist" /\ UNCHANGED <<sessions, opened>>
     ELSE IF ~HasSuffix(filename, <<".", "ts">>)
     THEN routed' = "400 Invalid HLS file" /\ UNCHANGED <<sessions, opened>>
     ELSE IF found = {}
     THEN routed' = "404 Session expired" /\ UNCHANGED <<sessions, opened>>
     ELSE \E s \in found :
            /\ sessions' = Touch(s)
            /\ opened' = SegmentPath(s, filename)
            /\ routed' = IF opened' # <<>> /\ FileExists(opened')
                         THEN "200" ELSE "404 Segment not found"
  /\ UNCHANGED <<otherVars, url, goos, dirs, procs, nextID, stopped, cleanupAlive, tick, req, terminated>>

\* The dispatcher's starting states: on either platform the manager holds one
\* session, of movie 1, opened by a playlist request that was answered with
\* the playlist, and a request for any of the paths arrives (file names that
\* begin with two backslashes, the UNC volume names, are left out).
RouteInit ==
  /\ sessions = <<[MovieID |-> 1, LastAccessed |-> 0, Process |-> 1]>>
  /\ dirs = <<{PlaylistFile, SegmentFile}>>
  /\ procs = <<[dir |-> 1, alive |-> TRUE]>>
  /\ nextID = 2
  /\ stopped = FALSE
  /\ cleanupAlive = TRUE
  /\ tick = FALSE
  /\ req = [r \in Requests |->
              IF r = 1 THEN [NoRequest EXCEPT !.movieID = 1, !.status = "200"]
              ELSE NoRequest]
  /\ terminated = {}
  /\ goos \in {"linux", "windows"}
  /\ url \in {HLSPrefix(m) \o tail : m \in MovieIDs, tail \in Tails}
  /\ ~(Len(url) >= 9 /\ url[8] = "\\" /\ url[9] = "\\")
  /\ routed = "none"
  /\ opened = <<>>
  /\ copyName = <<>>
  /\ copied = "none"
  /\ StreamIdle
  /\ SsdpIdle
  /\ MainStarted
  /\ RestIdle

RouteNext == ServeHTTP

RouteSpec == RouteInit /\ [][RouteNext]_vars

\* ---- HLSManager.CopySegment on any name ------------------------------------
NameTokens == {"/", ".", "2", "segment_000", "ts"}
Names == UNION {[1..n -> NameTokens] : n \in 1..MaxName}

\* os.Open(path) opens a directory, on which io.Copy's read fails.
DirExists(path) == \E id \in DOMAIN dirs : path = SessionDir(id)

\* CopySegment(1, copyName, w): the validation, os.Open and io.Copy.
CopySegmentCall ==
  /\ copied = "none"
  /\ opened' = SegmentPath(1, copyName)
  /\ copied' = IF opened' = <<>> THEN "ErrPermission"
               ELSE IF FileExists(opened') THEN "nil"
               ELSE IF DirExists(opened') THEN "EISDIR" ELSE "ErrNotExist"
  /\ UNCHANGED <<streamVars, ssdpVars, mainVars, restVars, copyName, url, routed, goos,
                 sessions, dirs, procs, nextID, stopped, cleanupAlive, tick, req, terminated>>

\* The manager of a linux build holds two sessions with their files, and
\* CopySegment is called for session 1 with any name.
CopyInit ==
  /\ sessions = <<[MovieID |-> 1, LastAccessed |-> 0, Process |-> 1],
                  [MovieID |-> 2, LastAccessed |-> 0, Process |-> 2]>>
  /\ dirs = <<{PlaylistFile, SegmentFile}, {PlaylistFile, SegmentFile}>>
  /\ procs = <<[dir |-> 1, alive |-> TRUE], [dir |-> 2, alive |-> TRUE]>>
  /\ nextID = 3
  /\ stopped = FALSE
  /\ cleanupAlive = TRUE
  /\ tick = FALSE
  /\ req = [r \in Requests |-> NoRequest]
  /\ terminated = {}
  /\ goos = "linux"
  /\ url = <<>>
  /\ routed = "none"
  /\ opened = <<>>
  /\ copyName \in Names
  /\ copied = "none"
  /\ StreamIdle
  /\ SsdpIdle
  /\ MainStarted
  /\ RestIdle

CopyNext == CopySegmentCall

CopySpec == CopyInit /\ [][CopyNext]_vars

\* ---- StreamHandler.ServeHTTP on /stream/{id} ---------------------------------
UpperLetters == <<"A", "B", "C", "D", "E", "F", "G", "H", "I", "J", "K", "L", "M",
                  "N", "O", "P", "Q", "R", "S", "T", "U", "V", "W", "X", "Y", "Z">>
LowerLetters == <<"a", "b", "c", "d", "e", "f", "g", "h", "i", "j", "k", "l", "m",
                  "n", "o", "p", "q", "r", "s", "t", "u", "v", "w", "x", "y", "z">>
Digits == <<"0", "1", "2", "3", "4", "5", "6", "7", "8", "9">>

IndexOf(c, seq) == CHOOSE i \in 1..Len(seq) : seq[i] = c
IsIn(c, seq) == \E i \in 1..Len(seq) : seq[i] = c

\* unicode.ToLower on the characters used here.
ToLowerChar(c) == IF IsIn(c, UpperLetters) THEN LowerLetters[IndexOf(c, UpperLetters)] ELSE c
ToLower(s) == [i \in 1..Len(s) |-> ToLowerChar(s[i])]

\* strings.EqualFold(a, b)
EqualFold(a, b) ==
  /\ Len(a) = Len(b)
  /\ \A i \in 1..Len(a) : ToLowerChar(a[i]) = ToLowerChar(b[i])

\* strconv.Atoi(s), the value alone: 0 on a syntax error.
RECURSIVE DigitsValue(_, _)
DigitsValue(s, acc) ==
  IF s = <<>> THEN acc
  ELSE DigitsValue(Tail(s), 10 * acc + (IndexOf(Head(s), Digits) - 1))

Atoi(s) ==
  LET signed == s # <<>> /\ Head(s) \in {"+", "-"}
      body   == IF signed THEN Tail(s) ELSE s
  IN IF body = <<>> \/ \E i \in 1..Len(body) : ~IsIn(body[i], Digits) THEN 0
     ELSE IF signed /\ Head(s) = "-" THEN 0 - DigitsValue(body, 0)
     ELSE DigitsValue(body, 0)

compatibleCodecs == <<<<"h", "2", "6", "4">>, <<"a", "v", "c">>, <<"a", "v", "c", "1">>>>

\* Transcoder.NeedsTranscode(movie, burnSubtitle), on movie.VideoCodec.
NeedsTranscode(VideoCodec, burnSubtitle) ==
  LET codecCompatible ==
        \E k \in 1..Len(compatibleCodecs) : EqualFold(VideoCodec, compatibleCodecs[k])
  IN IF burnSubtitle THEN TRUE ELSE ~codecCompatible

\* The requests: the query values and codecs tried.
TranscodeValues == {<<>>, <<"1">>, <<"0">>, <<"t", "r", "u", "e">>}
SubtitleValues  == {<<>>, <<"/", "s", "r", "t">>}
IndexValues     == {<<>>, <<"0">>, <<"2">>, <<"1", "0">>, <<"-", "1">>, <<"+", "1">>,
                    <<"a">>, <<"-">>}
FormatValues    == {<<>>, <<"h", "l", "s">>, <<"m", "p", "4">>}
CodecValues     == {<<>>, <<"h", "2", "6", "4">>, <<"H", "2", "6", "4">>, <<"a", "v", "c">>,
                    <<"A", "v", "C", "1">>, <<"a", "v", "c", "2">>, <<"h", "e", "v", "c">>,
                    <<"h", "2", "6", "5">>}

\* ServeHTTP from GetMovie on, for a path /stream/{id} without hls part.
ServeStream ==
  /\ served = "none"
  /\ LET q == streamReq
         transcode     == q.transcode = <<"1">>
         subtitlePath  == q.subtitle
         subtitleIndex == IF q.subtitle_index # <<>> THEN Atoi(q.subtitle_index) ELSE -1
         burn          == subtitlePath # <<>> \/ subtitleIndex >= 0
         needsTranscode == (transcode \/ burn) \/ NeedsTranscode(q.codec, burn)
     IN served' = IF q.movieID \notin Library THEN "404 Movie not found"
                  ELSE IF q.format = <<"h", "l", "s">> THEN "307 hls"
                  ELSE IF needsTranscode THEN "serveTranscodedStream"
                  ELSE "serveDirectStream"
  /\ UNCHANGED <<streamReq, ssdpVars, mainVars, restVars, copyVars, routeVars,
                 sessions, dirs, procs, nextID, stopped, cleanupAlive, tick, req, terminated>>

StreamInit ==
  /\ sessions = <<>>
  /\ dirs = <<>>
  /\ procs = <<>>
  /\ nextID = 1
  /\ stopped = FALSE
  /\ cleanupAlive = TRUE
  /\ tick = FALSE
  /\ req = [r \in Requests |-> NoRequest]
  /\ terminated = {}
  /\ goos = "linux"
  /\ url = <<>>
  /\ routed = "none"
  /\ opened = <<>>
  /\ copyName = <<>>
  /\ copied = "none"
  /\ SsdpIdle
  /\ MainStarted
  /\ RestIdle
  /\ streamReq \in [movieID : MovieIDs, transcode : TranscodeValues,
                    subtitle : SubtitleValues, subtitle_index : IndexValues,
                    format : FormatValues, codec : CodecValues]
  /\ served = "none"

StreamNext == ServeStream

StreamSpec == StreamInit /\ [][StreamNext]_vars

\* ---- SSDPServer: the strings of the protocol ---------------------------------
\* Header values, start lines and addresses are sequences of characters.
ssdpAlive == <<"s", "s", "d", "p", ":", "a", "l", "i", "v", "e">>
ssdpByebye == <<"s", "s", "d", "p", ":", "b", "y", "e", "b", "y", "e">>
ssdpUpdate == <<"s", "s", "d", "p", ":", "u", "p", "d", "a", "t", "e">>
ssdpAll == <<"s", "s", "d", "p", ":", "a", "l", "l">>
rootdevice == <<"u", "p", "n", "p", ":", "r", "o", "o", "t", "d", "e", "v", "i", "c", "e">>
MediaServer == <<"u", "r", "n", ":", "s", "c", "h", "e", "m", "a", "s", "-", "u", "p", "n", "p",
    "-", "o", "r", "g", ":", "d", "e", "v", "i", "c", "e", ":", "M", "e", "d", "i", "a", "S",
    "e", "r", "v", "e", "r", ":", "1">>
ContentDirectory == <<"u", "r", "n", ":", "s", "c", "h", "e", "m", "a", "s", "-", "u", "p", "n",
    "p", "-", "o", "r", "g", ":", "s", "e", "r", "v", "i", "c", "e", ":", "C", "o", "n", "t",
    "e", "n", "t", "D", "i", "r", "e", "c", "t", "o", "r", "y", ":", "1">>
ConnectionManager == <<"u", "r", "n", ":", "s", "c", "h", "e", "m", "a", "s", "-", "u", "p",
    "n", "p", "-", "o", "r", "g", ":", "s", "e", "r", "v", "i", "c", "e", ":", "C", "o", "n",
    "n", "e", "c", "t", "i", "o", "n", "M", "a", "n", "a", "g", "e", "r", ":", "1">>
MediaRenderer == <<"u", "r", "n", ":", "s", "c", "h", "e", "m", "a", "s", "-", "u", "p", "n",
    "p", "-", "o", "r", "g", ":", "d", "e", "v", "i", "c", "e", ":", "M", "e", "d", "i", "a",
    "R", "e", "n", "d", "e", "r", "e", "r", ":", "1">>
AVTransport == <<"u", "r", "n", ":", "s", "c", "h", "e", "m", "a", "s", "-", "u", "p", "n", "p",
    "-", "o", "r", "g", ":", "s", "e", "r", "v", "i", "c", "e", ":", "A", "V", "T", "r", "a",
    "n", "s", "p", "o", "r", "t", ":", "1">>
RenderingControl == <<"u", "r", "n", ":", "s", "c", "h", "e", "m", "a", "s", "-", "u", "p", "n",
    "p", "-", "o", "r", "g", ":", "s", "e", "r", "v", "i", "c", "e", ":", "R", "e", "n", "d",
    "e", "r", "i", "n", "g", "C", "o", "n", "t", "r", "o", "l", ":", "1">>
TvRenderer == <<"u", "r", "n", ":", "x", ":", "d", "e", "v", "i", "c", "e", ":", "T", "v", "R",
    "e", "n", "d", "e", "r", "e", "r", ":", "1">>
MainTVServer == <<"u", "r", "n", ":", "s", "a", "m", "s", "u", "n", "g", ".", "c", "o", "m",
    ":", "d", "e", "v", "i", "c", "e", ":", "M", "a", "i", "n", "T", "V", "S", "e", "r", "v",
    "e", "r", "2", ":", "1">>
ShortMediaServer == <<"M", "e", "d", "i", "a", "S", "e", "r", "v", "e", "r", ":", "1">>
UpperSsdpAll == <<"S", "S", "D", "P", ":", "A", "L", "L">>
LocTV == <<"h", "t", "t", "p", ":", "/", "/", "1", "0", ".", "0", ".", "0", ".", "7", "/", "t",
    "v", "d", "e", "s", "c", ".", "x", "m", "l">>
LocDisplay == <<"h", "t", "t", "p", ":", "/", "/", "1", "0", ".", "0", ".", "0", ".", "7", "/",
    "D", "i", "s", "p", "l", "a", "y">>
LocDmr == <<"h", "t", "t", "p", ":", "/", "/", "1", "0", ".", "0", ".", "0", ".", "7", "/", "d",
    "m", "r", ".", "x", "m", "l">>
UsnFull == <<"u", "u", "i", "d", ":", "a", ":", ":", "u", "p", "n", "p", ":", "r", "o", "o",
    "t", "d", "e", "v", "i", "c", "e">>
UsnBare == <<"a">>
UsnNoID == <<"u", "u", "i", "d", ":">>
UuidA == <<"a">>
StartSearch == <<"M", "-", "S", "E", "A", "R", "C", "H", " ", "*", " ", "H", "T", "T", "P", "/",
    "1", ".", "1">>
StartNotify == <<"N", "O", "T", "I", "F", "Y", " ", "*", " ", "H", "T", "T", "P", "/", "1", ".",
    "1">>
StartOK == <<"H", "T", "T", "P", "/", "1", ".", "1", " ", "2", "0", "0", " ", "O", "K">>
StartOther == <<"H", "T", "T", "P", "/", "1", ".", "1", " ", "4", "0", "4", " ", "N", "o", "t",
    " ", "F", "o", "u", "n", "d">>
serverAddr == <<"h", "t", "t", "p", ":", "/", "/", "1", "0", ".", "0", ".", "0", ".", "2", ":",
    "8", "0", "8", "0">>
selfUUID == <<"s", "r", "v">>
ManualType == <<"M", "a", "n", "u", "a", "l", " ", "D", "L", "N", "A", " ", "R", "e", "n", "d",
    "e", "r", "e", "r">>
KnownIP == <<"1", "9", "2", ".", "1", "6", "8", ".", "1", "1", "0", ".", "6", "5">>
KnownPort == <<"4", "9", "1", "5", "2">>
KnownPath == <<"/", "t", "v", "r", "e", "n", "d", "e", "r", "d", "e", "s", "c", ".", "x", "m",
    "l">>
OtherPath == <<"/", "d", "e", "s", "c", ".", "x", "m", "l">>
KnownName == <<"T", "C", "L", " ", "T", "V">>
OtherName == <<"T", "V">>

\* strings.HasPrefix(s, prefix)
HasPrefix(s, prefix) == Len(s) >= Len(prefix) /\ SubSeq(s, 1, Len(prefix)) = prefix

\* strings.Contains(s, sub)
Contains(s, sub) ==
  \E i \in 1..(Len(s) - Len(sub) + 1) : SubSeq(s, i, i + Len(sub) - 1) = sub

\* strings.TrimPrefix(s, prefix)
TrimPrefix(s, prefix) ==
  IF HasPrefix(s, prefix) THEN SubSeq(s, Len(prefix) + 1, Len(s)) ELSE s

\* strings.Split(usn, "::")[0]: the part before the first "::".
BeforeSep(s, sep) ==
  IF Contains(s, sep)
  THEN LET k == CHOOSE i \in 1..(Len(s) - Len(sep) + 1) :
                  /\ SubSeq(s, i, i + Len(sep) - 1) = sep
                  /\ \A j \in 1..(i - 1) : SubSeq(s, j, j + Len(sep) - 1) # sep
       IN SubSeq(s, 1, k - 1)
  ELSE s

\* extractUUID(usn)
extractUUID(usn) == TrimPrefix(BeforeSep(usn, <<":", ":">>), <<"u", "u", "i", "d", ":">>)

\* headers[K], and headers[k] when that is empty: the lookups of the handlers.
Header(headers, K, k) ==
  LET upper == IF K \in DOMAIN headers THEN headers[K] ELSE NoValue
      lower == IF k \in DOMAIN headers THEN headers[k] ELSE NoValue
  IN IF upper = NoValue THEN lower ELSE upper

\* ---- SSDPServer: the datagrams the listener reads ----------------------------
\* A datagram after parseHeaders: start line, sender, and the header map, whose
\* keys a sender writes in upper or in lower case; a header without value is
\* left out of the map.
UpperKeys == [NTS |-> "NTS", USN |-> "USN", LOCATION |-> "LOCATION", NT |-> "NT", ST |-> "ST"]
LowerKeys == [NTS |-> "nts", USN |-> "usn", LOCATION |-> "location", NT |-> "nt", ST |-> "st"]

Keyed(keys, fields) ==
  [k \in {keys[f] : f \in {f \in DOMAIN fields : fields[f] # NoValue}} |->
     fields[CHOOSE f \in DOMAIN fields : keys[f] = k]]

Datagram(start, keys, fields) == [start |-> start, from |-> "peer", headers |-> Keyed(keys, fields)]

UsnValues      == {UsnFull, UsnBare, UsnNoID, NoValue}
LocationValues == {LocTV, LocDisplay, LocDmr, NoValue}
NtsValues      == {ssdpAlive, ssdpByebye, ssdpUpdate}
NtValues       == {MediaRenderer, AVTransport, RenderingControl, TvRenderer,
                   MainTVServer, rootdevice, NoValue}
StValues       == {MediaRenderer, ssdpAll, rootdevice, MainTVServer, NoValue}
SearchTargets  == {ssdpAll, rootdevice, MediaServer, ContentDirectory, ConnectionManager,
                   MediaRenderer, ShortMediaServer, UpperSsdpAll, NoValue}
KeyCases       == {UpperKeys, LowerKeys}

Notifies ==
  {Datagram(StartNotify, keys, [NTS |-> nts, USN |-> usn, LOCATION |-> loc, NT |-> nt]) :
     keys \in KeyCases, nts \in NtsValues, usn \in UsnValues, loc \in LocationValues,
     nt \in NtValues}
SearchResponses ==
  {Datagram(start, keys, [USN |-> usn, LOCATION |-> loc, ST |-> st]) :
     start \in {StartOK, StartOther}, keys \in KeyCases, usn \in UsnValues,
     loc \in LocationValues, st \in StValues}
Searches ==
  {Datagram(StartSearch, keys, [ST |-> st]) : keys \in KeyCases, st \in SearchTargets}
Datagrams == Notifies \cup SearchResponses \cup Searches

\* ---- SSDPServer: the registry and its handlers -------------------------------
\* devices maps a uuid to [DeviceType, Location, FriendlyName, LastSeen], where
\* LastSeen is kept as the seconds elapsed since time.Now() was stored.
Put(uuid, device) ==
  [u \in DOMAIN devices \cup {uuid} |-> IF u = uuid THEN device ELSE devices[u]]
Delete(uuid) == [u \in DOMAIN devices \ {uuid} |-> devices[u]]

\* conn.ReadFromUDP returned the datagram msg without error.
Received(msg) ==
  /\ ssdpIn = NoDatagram
  /\ ssdpIn' = msg
  /\ ssdpOut' = <<>>

\* The listener read a datagram.
ReadFromUDP(msg) ==
  /\ Received(msg)
  /\ UNCHANGED <<devices, ssdpElapsed, ssdpTick, hlsVars, routeVars, copyVars, streamVars, mainVars, restVars>>

\* sendSearchResponse(addr, st): the datagram written to addr (the dial of a
\* UDP address is taken to succeed).
SearchResponse(addr, st) ==
  [to |-> addr, start |-> StartOK, ST |-> st,
   LOCATION |-> serverAddr \o <<"/", "d", "l", "n", "a", "/", "d", "e", "v", "i", "c", "e", ".", "x", "m", "l">>,
   USN |-> <<"u", "u", "i", "d", ":">> \o selfUUID \o <<":", ":", "u", "p", "n", "p", ":", "r", "o", "o", "t", "d", "e", "v", "i", "c", "e">>]

\* handleSearch with a switch that answers every search target.
handleSearch_AnyTarget(headers, remoteAddr) ==
  /\ ssdpOut' = <<SearchResponse(remoteAddr, Header(headers, "ST", "st"))>>
  /\ UNCHANGED devices

\* handleSearch(headers, remoteAddr)
handleSearch(headers, remoteAddr) ==
  LET st == Header(headers, "ST", "st")
      shouldRespond ==
        st \in {ssdpAll, rootdevice, MediaServer, ContentDirectory, ConnectionManager}
  IN /\ IF shouldRespond
        THEN ssdpOut' = <<SearchResponse(remoteAddr, st)>>
        ELSE ssdpOut' = <<>>
     /\ UNCHANGED devices

\* isRenderer as both handlers compute it from the lower-cased type and
\* location.
LooksLikeRenderer_Any(type, location) == TRUE

LooksLikeRenderer(type, location) ==
  LET lowerType == ToLower(type)
      lowerLoc  == ToLower(location)
  IN \/ Contains(lowerType, <<"m", "e", "d", "i", "a", "r", "e", "n", "d", "e", "r", "e", "r">>)
     \/ Contains(lowerType, <<"a", "v", "t", "r", "a", "n", "s", "p", "o", "r", "t">>)
     \/ Contains(lowerType, <<"r", "e", "n", "d", "e", "r", "i", "n", "g", "c", "o", "n", "t", "r", "o", "l">>)
     \/ Contains(lowerType, <<"t", "v", "r", "e", "n", "d", "e", "r", "e", "r">>)
     \/ Contains(lowerLoc, <<"r", "e", "n", "d", "e", "r">>)
     \/ Contains(lowerLoc, <<"t", "v">>)
     \/ Contains(lowerLoc, <<"d", "i", "s", "p", "l", "a", "y">>)

\* The handlers' last step as an insert that overwrites the entry of a known
\* uuid.
Discover_Replace(uuid, type, location) ==
  devices' = Put(uuid, [DeviceType |-> type, Location |-> location,
                        FriendlyName |-> NoValue, LastSeen |-> 0])

\* The insert-or-refresh both handlers end with.
Discover(uuid, type, location) ==
  IF uuid \notin DOMAIN devices
  THEN devices' = Put(uuid, [DeviceType |-> type, Location |-> location,
                             FriendlyName |-> NoValue, LastSeen |-> 0])
  ELSE devices' = [devices EXCEPT ![uuid].LastSeen = 0]

\* handleNotify(headers)
handleNotify(headers) ==
  LET nts      == Header(headers, "NTS", "nts")
      usn      == Header(headers, "USN", "usn")
      location == Header(headers, "LOCATION", "location")
      nt       == Header(headers, "NT", "nt")
      uuid     == extractUUID(usn)
  IN /\ ssdpOut' = <<>>
     /\ IF ~LooksLikeRenderer(nt, location) THEN UNCHANGED devices
        ELSE IF uuid = NoValue THEN UNCHANGED devices
        ELSE IF nts = ssdpAlive THEN Discover(uuid, nt, location)
        ELSE IF nts = ssdpByebye THEN devices' = Delete(uuid)
        ELSE UNCHANGED devices

\* handleSearchResponse(headers)
handleSearchResponse(headers) ==
  LET location == Header(headers, "LOCATION", "location")
      usn      == Header(headers, "USN", "usn")
      st       == Header(headers, "ST", "st")
      uuid     == extractUUID(usn)
  IN /\ ssdpOut' = <<>>
     /\ IF ~(LooksLikeRenderer(st, location) \/ st = ssdpAll) THEN UNCHANGED devices
        ELSE IF uuid = NoValue THEN UNCHANGED devices
        ELSE Discover(uuid, st, location)

\* handleMessage(data, addr): the handler of the start line.
Handled ==
  /\ ssdpIn # NoDatagram
  /\ ssdpIn' = NoDatagram
  /\ IF HasPrefix(ssdpIn.start, <<"M", "-", "S", "E", "A", "R", "C", "H">>) THEN handleSearch(ssdpIn.headers, ssdpIn.from)
     ELSE IF HasPrefix(ssdpIn.start, <<"N", "O", "T", "I", "F", "Y">>) THEN handleNotify(ssdpIn.headers)
     ELSE IF HasPrefix(ssdpIn.start, <<"H", "T", "T", "P", "/", "1", ".", "1", " ", "2", "0", "0">>) THEN handleSearchResponse(ssdpIn.headers)
     ELSE UNCHANGED <<devices, ssdpOut>>

\* handleMessage on the datagram read.
handleMessage ==
  /\ Handled
  /\ UNCHANGED <<ssdpElapsed, ssdpTick, hlsVars, routeVars, copyVars, streamVars, mainVars, restVars>>

\* AddManualDevice keeping no "already exists" test.
AddManualDevice_Overwrite(ip, port, path, friendlyName) ==
  /\ devices' = Put(<<"m", "a", "n", "u", "a", "l", "-">> \o ip \o <<"-">> \o port,
                    [DeviceType |-> ManualType,
                     Location |-> <<"h", "t", "t", "p", ":", "/", "/">> \o ip \o <<":">> \o port \o path,
                     FriendlyName |-> friendlyName, LastSeen |-> 0])
  /\ UNCHANGED <<ssdpIn, ssdpOut, ssdpElapsed, ssdpTick, hlsVars, routeVars, copyVars, streamVars, mainVars, restVars>>

\* AddManualDevice(ip, port, path, friendlyName)
AddManualDevice(ip, port, path, friendlyName) ==
  LET location == <<"h", "t", "t", "p", ":", "/", "/">> \o ip \o <<":">> \o port \o path
      uuid     == <<"m", "a", "n", "u", "a", "l", "-">> \o ip \o <<"-">> \o port
  IN /\ IF uuid \in DOMAIN devices THEN UNCHANGED devices
        ELSE devices' = Put(uuid, [DeviceType |-> ManualType, Location |-> location,
                                   FriendlyName |-> friendlyName, LastSeen |-> 0])
     /\ UNCHANGED <<ssdpIn, ssdpOut, ssdpElapsed, ssdpTick, hlsVars, routeVars, copyVars, streamVars, mainVars, restVars>>

\* ---- SSDPServer: time and the stale-device sweeper ---------------------------
\* Time passes in steps of half a sweeper period; the sweeper's ticker fires
\* when a whole period has elapsed, and the sweep runs before time moves on.
StaleAfter == ssdpMaxAge * 2
TimeStep   == DeviceSweepEvery \div 2
AgeCap     == StaleAfter + DeviceSweepEvery + TimeStep

SsdpAdvance ==
  /\ ~ssdpTick
  /\ ssdpElapsed' = (ssdpElapsed + TimeStep) % DeviceSweepEvery
  /\ ssdpTick' = (ssdpElapsed + TimeStep = DeviceSweepEvery)
  /\ devices' = [u \in DOMAIN devices |->
                   [devices[u] EXCEPT !.LastSeen =
                      IF @ + TimeStep > AgeCap THEN AgeCap ELSE @ + TimeStep]]
  /\ UNCHANGED <<ssdpIn, ssdpOut, hlsVars, routeVars, copyVars, streamVars, mainVars, restVars>>

\* cleanupDevices, case <-ticker.C: delete what was last seen before the cutoff.
cleanupDevices ==
  /\ ssdpRun.sweep = "select"
  /\ ssdpTick
  /\ ssdpTick' = FALSE
  /\ devices' = [u \in {v \in DOMAIN devices : ~(devices[v].LastSeen > StaleAfter)} |->
                   devices[u]]
  /\ UNCHANGED <<ssdpIn, ssdpOut, ssdpElapsed, hlsVars, routeVars, copyVars, streamVars, mainVars, restVars>>

\* GetDevices(): the entries handed to the API.
GetDevices == {devices[u] : u \in DOMAIN devices}

\* ---- SSDPServer: specifications ----------------------------------------------
ManualUUID == <<"m", "a", "n", "u", "a", "l", "-">> \o KnownIP \o <<"-">> \o KnownPort

\* Registries the server can hold: the renderer a announced itself, the known
\* television was added by hand, some time ago or just now.
AnnouncedDevices ==
  {[DeviceType |-> type, Location |-> LocTV, FriendlyName |-> NoValue, LastSeen |-> age] :
     type \in {MediaRenderer, rootdevice}, age \in {0, ssdpMaxAge}}
ManualDevices ==
  {[DeviceType |-> ManualType,
    Location |-> <<"h", "t", "t", "p", ":", "/", "/">> \o KnownIP \o <<":">> \o KnownPort \o KnownPath,
    FriendlyName |-> KnownName, LastSeen |-> age] : age \in {0, ssdpMaxAge}}
Registries ==
  {NoDevices}
  \cup {[u \in {UuidA} |-> d] : d \in AnnouncedDevices}
  \cup {[u \in {ManualUUID} |-> m] : m \in ManualDevices}
  \cup {[u \in {UuidA, ManualUUID} |-> IF u = UuidA THEN d ELSE m] :
          d \in AnnouncedDevices, m \in ManualDevices}

HlsIdle ==
  /\ sessions = <<>> /\ dirs = <<>> /\ procs = <<>> /\ nextID = 1
  /\ stopped = FALSE /\ cleanupAlive = TRUE /\ tick = FALSE
  /\ req = [r \in Requests |-> NoRequest] /\ terminated = {}
RouteIdle == url = <<>> /\ routed = "none" /\ opened = <<>> /\ goos = "linux"
CopyIdle == copyName = <<>> /\ copied = "none"

\* The listener and the API on any datagram.
SsdpInit ==
  /\ HlsIdle /\ RouteIdle /\ CopyIdle /\ StreamIdle /\ MainStarted /\ RestIdle
  /\ devices \in Registries
  /\ ssdpIn = NoDatagram
  /\ ssdpOut = <<>>
  /\ ssdpElapsed = 0
  /\ ssdpTick = FALSE

SsdpNext ==
  \/ \E msg \in Datagrams : ReadFromUDP(msg)
  \/ handleMessage
  \/ \E path \in {KnownPath, OtherPath}, name \in {KnownName, OtherName} :
       AddManualDevice(KnownIP, KnownPort, path, name)

SsdpSpec == SsdpInit /\ [][SsdpNext]_vars

\* The registry over time: announcements and farewells of renderer a, the
\* manual entry, the clock and the sweeper.
AgeDatagrams ==
  {Datagram(StartNotify, UpperKeys,
            [NTS |-> nts, USN |-> UsnFull, LOCATION |-> LocTV, NT |-> MediaRenderer]) :
     nts \in {ssdpAlive, ssdpByebye}}

SsdpAgeInit ==
  /\ HlsIdle /\ RouteIdle /\ CopyIdle /\ StreamIdle
  /\ SsdpIdle
  /\ MainStarted
  /\ RestIdle

SsdpAgeNext ==
  \/ \E msg \in AgeDatagrams : ReadFromUDP(msg)
  \/ handleMessage
  \/ AddManualDevice(KnownIP, KnownPort, KnownPath, KnownName)
  \/ SsdpAdvance
  \/ cleanupDevices

SsdpAgeSpec == SsdpAgeInit /\ [][SsdpAgeNext]_vars

\* ---- SSDPServer.advertise and main's shutdown --------------------------------
\* What a step on the server's run state leaves alone.
RunOthers ==
  <<hlsVars, routeVars, copyVars, streamVars,
    browseVars, scanVars, castVars, pipe, ctxVars, hms, ffargs, hlsQuery, procQuery>>

AdvertiseEvery == ssdpMaxAge \div 2

\* sendNotify: the notification types, in the order of the loop.
types == <<"upnp:rootdevice",
           "urn:schemas-upnp-org:device:MediaServer:1",
           "urn:schemas-upnp-org:service:ContentDirectory:1",
           "urn:schemas-upnp-org:service:ConnectionManager:1">>

\* The NOTIFY block sendNotify(nts) writes.
Block(nts) == [k \in 1..Len(types) |-> [NT |-> types[k], NTS |-> nts]]

Exited == mainPc = "exited"

\* sendNotify, one turn of its loop: conn.Write of the k-th NOTIFY, then the
\* 50 ms sleep (the dial of the multicast address is taken to succeed).  After
\* the last one an alive block returns to the select, a byebye block to the
\* end of advertise.
AdvWrite ==
  /\ ~Exited
  /\ adv.pc = "sendNotify"
  /\ advSent' = (IF adv.k = 1 THEN <<>> ELSE advSent) \o <<[NT |-> types[adv.k], NTS |-> adv.nts]>>
  /\ adv' = IF adv.k < Len(types) THEN [adv EXCEPT !.k = @ + 1]
            ELSE IF adv.nts = "ssdp:alive" THEN [adv EXCEPT !.pc = "select", !.k = 1]
            ELSE [adv EXCEPT !.pc = "returned", !.k = 1]
  /\ UNCHANGED <<mainPc, advTick, ssdpStopChan, httpOpen,
                 hlsVars, routeVars, copyVars, streamVars, ssdpVars, restVars>>

\* The advertiser's ticker fires, AdvertiseEvery seconds after the last time.
AdvTick ==
  /\ ~Exited
  /\ ~advTick
  /\ adv.pc # "returned"
  /\ advTick' = TRUE
  /\ UNCHANGED <<mainPc, adv, advSent, ssdpStopChan, httpOpen,
                 hlsVars, routeVars, copyVars, streamVars, ssdpVars, restVars>>

\* The select of advertise: any ready case may be taken; <-ctx.Done() and
\* <-s.stopChan both send the byebye block and return.
AdvSelect ==
  /\ ~Exited
  /\ adv.pc = "select"
  /\ \/ /\ ssdpRun.ctxDone \/ ssdpStopChan
        /\ adv' = [pc |-> "sendNotify", nts |-> "ssdp:byebye", k |-> 1]
        /\ UNCHANGED advTick
     \/ /\ advTick
        /\ advTick' = FALSE
        /\ adv' = [pc |-> "sendNotify", nts |-> "ssdp:alive", k |-> 1]
  /\ UNCHANGED <<mainPc, advSent, ssdpStopChan, httpOpen,
                 hlsVars, routeVars, copyVars, streamVars, ssdpVars, restVars>>

\* main receives SIGINT or SIGTERM.  A signal sent to the process group (the
\* terminal's ctrl-C) reaches the transcoder children too, one sent to the
\* server alone does not.
Signal ==
  /\ mainPc = "running"
  /\ mainPc' = "ssdp.Stop"
  /\ \/ procs' = KillAll(DOMAIN sessions)
     \/ UNCHANGED procs
  /\ UNCHANGED <<adv, advSent, advTick, ssdpStopChan, httpOpen,
                 sessions, dirs, nextID, stopped, cleanupAlive, tick, req, terminated,
                 routeVars, copyVars, streamVars, ssdpVars, restVars>>

\* ssdp.Stop(): running = false, close(stopChan), conn.Close().
SsdpStop ==
  /\ mainPc = "ssdp.Stop"
  /\ mainPc' = "server.Shutdown"
  /\ ssdpStopChan' = TRUE
  /\ ssdpRun' = [ssdpRun EXCEPT !.running = FALSE, !.connOpen = FALSE]
  /\ UNCHANGED <<adv, advSent, advTick, httpOpen, ssdpVars, RunOthers>>

\* server.Shutdown(shutdownCtx): the listener is closed.
ServerShutdown ==
  /\ mainPc = "server.Shutdown"
  /\ mainPc' = "return"
  /\ httpOpen' = FALSE
  /\ UNCHANGED <<adv, advSent, advTick, ssdpStopChan,
                 hlsVars, routeVars, copyVars, streamVars, ssdpVars, restVars>>

\* main returns and the process ends, with every goroutine in it.
MainReturn ==
  /\ mainPc = "return"
  /\ mainPc' = "exited"
  /\ UNCHANGED <<adv, advSent, advTick, ssdpStopChan, httpOpen,
                 hlsVars, routeVars, copyVars, streamVars, ssdpVars, restVars>>

\* The server runs with one HLS session, whose transcoder has written its
\* playlist.
MainInit ==
  /\ sessions = <<[MovieID |-> 1, LastAccessed |-> 0, Process |-> 1]>>
  /\ dirs = <<{PlaylistFile, SegmentFile}>>
  /\ procs = <<[dir |-> 1, alive |-> TRUE]>>
  /\ nextID = 2
  /\ stopped = FALSE /\ cleanupAlive = TRUE /\ tick = FALSE
  /\ req = [r \in Requests |-> NoRequest]
  /\ terminated = {}
  /\ RouteIdle /\ CopyIdle /\ StreamIdle /\ SsdpIdle
  /\ MainStarted
  /\ RestIdle

MainNext ==
  \/ AdvWrite
  \/ AdvTick
  \/ AdvSelect
  \/ Signal
  \/ SsdpStop
  \/ ServerShutdown
  \/ MainReturn

MainSpec == MainInit /\ [][MainNext]_vars

\* ---- SSDPServer: Stop, the start context, and the three goroutines -----------
\* The shutdown of the SSDP server seen from its goroutines.  The listener is
\* at: "for" (the loop condition), "select", "read" (blocked in ReadFromUDP),
\* "handle" (in handleMessage) or "returned"; the sweeper at "select" or
\* "returned"; the advertiser is adv.  Only a blocked read lets time pass: the
\* other steps of the listener take no time at the grain of the read deadline.
ShutDown == ssdpRun.ctxDone \/ ssdpStopChan
SinceCap == ReadDeadline + 1

\* SSDPServer.Stop(), called once by the owner of the server.
SSDPServerStop ==
  /\ ~ssdpStopChan
  /\ ssdpStopChan' = TRUE
  /\ ssdpRun' = [ssdpRun EXCEPT !.running = FALSE, !.connOpen = FALSE]
  /\ UNCHANGED <<mainPc, adv, advSent, advTick, httpOpen, ssdpVars, RunOthers>>

\* The context handed to Start is cancelled.
CancelStart ==
  /\ ~ssdpRun.ctxDone
  /\ ssdpRun' = [ssdpRun EXCEPT !.ctxDone = TRUE]
  /\ UNCHANGED <<mainVars, ssdpVars, RunOthers>>

\* listen, `for s.running`: Stop writes the flag and the listener reads it
\* with no synchronisation, so after the write the read may still give true.
listenFor ==
  /\ ssdpRun.listen = "for"
  /\ \E running \in (IF ssdpRun.running THEN {TRUE} ELSE {TRUE, FALSE}) :
       ssdpRun' = [ssdpRun EXCEPT !.listen = IF running THEN "select" ELSE "returned"]
  /\ UNCHANGED <<mainVars, ssdpVars, RunOthers>>

\* listen, the select that looks at stopChan alone.
listenSelect_StopChanOnly ==
  /\ ssdpRun.listen = "select"
  /\ ssdpRun' = IF ssdpStopChan THEN [ssdpRun EXCEPT !.listen = "returned"]
                ELSE [ssdpRun EXCEPT !.listen = "read", !.waited = 0]
  /\ UNCHANGED <<mainVars, ssdpVars, RunOthers>>

\* listen, the select: <-ctx.Done() and <-s.stopChan return, default goes on
\* to SetReadDeadline(now + 1 s) and the read.
listenSelect ==
  /\ ssdpRun.listen = "select"
  /\ ssdpRun' = IF ssdpRun.ctxDone \/ ssdpStopChan THEN [ssdpRun EXCEPT !.listen = "returned"]
                ELSE [ssdpRun EXCEPT !.listen = "read", !.waited = 0]
  /\ UNCHANGED <<mainVars, ssdpVars, RunOthers>>

\* listen, ReadFromUDP returns a datagram before the deadline.
listenRead(msg) ==
  /\ ssdpRun.listen = "read"
  /\ ssdpRun.connOpen
  /\ Received(msg)
  /\ ssdpRun' = [ssdpRun EXCEPT !.listen = "handle"]
  /\ UNCHANGED <<devices, ssdpElapsed, ssdpTick, mainVars, RunOthers>>

\* listen, ReadFromUDP returns an error, `continue`: the deadline has passed,
\* or the connection is closed.
listenError ==
  /\ ssdpRun.listen = "read"
  /\ ~ssdpRun.connOpen \/ ssdpRun.waited = ReadDeadline
  /\ ssdpRun' = [ssdpRun EXCEPT !.listen = "for"]
  /\ UNCHANGED <<mainVars, ssdpVars, RunOthers>>

\* listen, s.handleMessage(message, remoteAddr), then the loop again.
listenHandle ==
  /\ ssdpRun.listen = "handle"
  /\ Handled
  /\ ssdpRun' = [ssdpRun EXCEPT !.listen = "for"]
  /\ UNCHANGED <<ssdpElapsed, ssdpTick, mainVars, RunOthers>>

\* The step listenHandle as the run state shows it: handleMessage returned.
listenHandled ==
  /\ ssdpRun.listen = "handle"
  /\ ssdpRun' = [ssdpRun EXCEPT !.listen = "for"]

\* cleanupDevices, case <-ctx.Done() or <-s.stopChan: return.
cleanupDevicesReturn ==
  /\ ssdpRun.sweep = "select"
  /\ ShutDown
  /\ ssdpRun' = [ssdpRun EXCEPT !.sweep = "returned"]
  /\ UNCHANGED <<mainVars, ssdpVars, RunOthers>>

\* The sweeper's ticker fires, DeviceSweepEvery seconds after the last time;
\* the deferred ticker.Stop() ends it when the sweeper returns.
SweepTick ==
  /\ ssdpRun.sweep = "select"
  /\ ~ssdpTick
  /\ ssdpTick' = TRUE
  /\ UNCHANGED <<devices, ssdpIn, ssdpOut, ssdpElapsed, mainVars, restVars,
                 hlsVars, routeVars, copyVars, streamVars>>

\* A second passes while the listener is blocked in its read or has returned.
SecondPasses ==
  /\ \/ ssdpRun.listen = "returned" /\ ssdpRun.since < SinceCap
     \/ ssdpRun.listen = "read" /\ ssdpRun.connOpen /\ ssdpRun.waited < ReadDeadline
  /\ ssdpRun' = [ssdpRun EXCEPT
                   !.waited = IF ssdpRun.listen = "read" THEN @ + 1 ELSE @,
                   !.since  = IF ShutDown /\ @ < SinceCap THEN @ + 1 ELSE @]
  /\ UNCHANGED <<mainVars, ssdpVars, RunOthers>>

\* The advertiser takes the shutdown case of its select.
AdvSelectShutDown == AdvSelect /\ adv'.nts = "ssdp:byebye"

\* The server runs with an empty registry, or with renderer a in it, last
\* seen long enough ago for the next sweep to delete it.
StaleDevices ==
  {[DeviceType |-> MediaRenderer, Location |-> LocTV, FriendlyName |-> NoValue,
    LastSeen |-> StaleAfter + TimeStep]}

SsdpStopInit ==
  /\ HlsIdle /\ RouteIdle /\ CopyIdle /\ StreamIdle /\ MainStarted /\ RestIdle
  /\ devices \in {NoDevices} \cup {[u \in {UuidA} |-> d] : d \in StaleDevices}
  /\ ssdpIn = NoDatagram
  /\ ssdpOut = <<>>
  /\ ssdpElapsed = 0
  /\ ssdpTick = FALSE

SsdpStopNext ==
  \/ SSDPServerStop
  \/ CancelStart
  \/ listenFor
  \/ listenSelect
  \/ \E msg \in AgeDatagrams : listenRead(msg)
  \/ listenError
  \/ listenHandle
  \/ SweepTick
  \/ cleanupDevices
  \/ cleanupDevicesReturn
  \/ AdvWrite
  \/ AdvTick
  \/ AdvSelect
  \/ SecondPasses

\* The scheduler runs every goroutine that can take a step, the clock goes
\* on, and a select takes each of its ready cases with equal chance, so that
\* a case that is ready again and again is taken in the end.
SsdpStopFairness ==
  /\ WF_vars(listenFor \/ listenSelect \/ listenError)
  /\ WF_ssdpRun(listenHandled)
  /\ WF_vars(SecondPasses)
  /\ WF_vars(AdvWrite)
  /\ SF_vars(AdvSelectShutDown)
  /\ SF_vars(cleanupDevicesReturn)

SsdpStopSpec == SsdpStopInit /\ [][SsdpStopNext]_vars /\ SsdpStopFairness

\* ---- ContentDirectoryService: Browse of "movies" -----------------------------
\* Library.GetAllMovies: the values of the map l.movies, appended in the order
\* of a range over the map.  The language leaves that order unspecified and
\* the runtime randomises it, call by call: any order of the ids.
GetAllMovies ==
  {s \in [1..Cardinality(movies) -> movies] : \A i, j \in DOMAIN s : i # j => s[i] # s[j]}

DefaultRequestedCount == 100

\* movies[start:end] of a slice of length n panics unless 0 <= start <= end <= n.
SliceInRange(start, end, n) == 0 <= start /\ start <= end /\ end <= n

\* buildMoviesList(start, count) over the list GetAllMovies returned.
buildMoviesList(all, start, count) ==
  LET total == Len(all)
      end   == IF start + count > total THEN total ELSE start + count
      from  == IF start > total THEN total ELSE start
  IN IF ~SliceInRange(from, end, total)
     THEN [NoBrowse EXCEPT !.called = TRUE, !.panic = TRUE]
     ELSE [called |-> TRUE, panic |-> FALSE,
           items |-> SubSeq(all, from + 1, end),
           NumberReturned |-> end - from,
           TotalMatches |-> total]

\* handleBrowse, ObjectID "movies" with BrowseDirectChildren: the two numbers
\* are read with strconv.Atoi (error dropped), a count of 0 stands for 100.
handleBrowse(all, StartingIndex, RequestedCount) ==
  LET start == Atoi(StartingIndex)
      count == IF Atoi(RequestedCount) = 0 THEN DefaultRequestedCount ELSE Atoi(RequestedCount)
  IN buildMoviesList(all, start, count)

\* The text of a natural number, as a control point writes it.
RECURSIVE Itoa(_)
Itoa(n) == IF n < 10 THEN <<Digits[n + 1]>> ELSE Itoa(n \div 10) \o <<Digits[(n % 10) + 1]>>

\* What a client can put into <StartingIndex> and <RequestedCount>.
IndexTexts == {<<>>, <<"-", "1">>} \cup {Itoa(n) : n \in 1..(MaxLibrary + 1)}
CountTexts == {<<"-", "1">>} \cup {Itoa(n) : n \in 0..MaxLibrary}

\* One Browse with any two numbers.
Browse ==
  \E s \in IndexTexts, c \in CountTexts, all \in GetAllMovies :
    /\ browseReq' = [start |-> Atoi(s), count |-> Atoi(c)]
    /\ browseRes' = handleBrowse(all, s, c)
    /\ UNCHANGED <<movies, pager>>
    /\ UNCHANGED <<hlsVars, routeVars, copyVars, streamVars, ssdpVars, mainVars,
                   scanVars, castVars, pipe, ctxVars, auxVars>>

\* The control point asks for its next page: the page after the items it has.
NextPage ==
  /\ Len(pager.got) < Cardinality(movies)
  /\ \E all \in GetAllMovies :
       LET res == handleBrowse(all, Itoa(Len(pager.got)), Itoa(pager.k))
       IN /\ browseReq' = [start |-> Len(pager.got), count |-> pager.k]
          /\ browseRes' = res
          /\ pager' = [pager EXCEPT !.got = @ \o res.items]
  /\ UNCHANGED movies
  /\ UNCHANGED <<hlsVars, routeVars, copyVars, streamVars, ssdpVars, mainVars,
                 scanVars, castVars, pipe, ctxVars, auxVars>>

\* A library that does not change while it is browsed.
BrowseInit ==
  /\ HlsIdle /\ RouteIdle /\ CopyIdle /\ StreamIdle /\ SsdpIdle /\ MainStarted
  /\ ScanIdle /\ CastIdle /\ PipeIdle /\ CtxIdle /\ HmsIdle /\ ArgsIdle /\ RunIdle /\ QueryIdle
  /\ movies \in {1..n : n \in 0..MaxLibrary}
  /\ browseReq = [start |-> 0, count |-> 0]
  /\ browseRes = NoBrowse
  /\ pager \in [k : 1..MaxPage, got : {<<>>}]

BrowseNext == Browse \/ NextPage

BrowseSpec == BrowseInit /\ [][BrowseNext]_vars

\* ---- /api/scan and ContentDirectoryService.updateID ---------------------------
\* handleScan: the scan is started as a goroutine and the handler answers
\* "scanning" at once.
handleScan ==
  /\ Len(scanTasks) < MaxScans
  /\ scanTasks' = Append(scanTasks, [pc |-> "Scan", updateID |-> 0])
  /\ UNCHANGED updateID
  /\ UNCHANGED <<hlsVars, routeVars, copyVars, streamVars, ssdpVars, mainVars,
                 browseVars, castVars, pipe, ctxVars, auxVars>>

\* a.library.Scan(ctx): runs under l.mu.Lock from its first to its last
\* statement, so scans follow one another; whether it returns an error or not,
\* the goroutine goes on to IncrementUpdateID.  The media directories are the
\* same as at the last scan.
LibraryScan(t) ==
  /\ scanTasks[t].pc = "Scan"
  /\ scanTasks' = [scanTasks EXCEPT ![t].pc = "load"]
  /\ UNCHANGED updateID
  /\ UNCHANGED <<hlsVars, routeVars, copyVars, streamVars, ssdpVars, mainVars,
                 browseVars, castVars, pipe, ctxVars, auxVars>>

\* s.updateID++ is a load, an add and a store of a plain uint32 field, under
\* no lock and not atomic: here the load ...
LoadUpdateID(t) ==
  /\ scanTasks[t].pc = "load"
  /\ scanTasks' = [scanTasks EXCEPT ![t].pc = "store", ![t].updateID = updateID]
  /\ UNCHANGED updateID
  /\ UNCHANGED <<hlsVars, routeVars, copyVars, streamVars, ssdpVars, mainVars,
                 browseVars, castVars, pipe, ctxVars, auxVars>>

\* ... and here the store of the value loaded plus one (the wrap of the uint32
\* lies 2^32 scans away, beyond MaxScans).
StoreUpdateID(t) ==
  /\ scanTasks[t].pc = "store"
  /\ updateID' = scanTasks[t].updateID + 1
  /\ scanTasks' = [scanTasks EXCEPT ![t].pc = "done"]
  /\ UNCHANGED <<hlsVars, routeVars, copyVars, streamVars, ssdpVars, mainVars,
                 browseVars, castVars, pipe, ctxVars, auxVars>>

ScanInit ==
  /\ HlsIdle /\ RouteIdle /\ CopyIdle /\ StreamIdle /\ SsdpIdle /\ MainStarted
  /\ BrowseIdle /\ CastIdle /\ PipeIdle /\ CtxIdle /\ HmsIdle /\ ArgsIdle /\ RunIdle /\ QueryIdle
  /\ updateID = 1
  /\ scanTasks = <<>>

ScanNext ==
  \/ handleScan
  \/ \E t \in DOMAIN scanTasks : LibraryScan(t)
  \/ \E t \in DOMAIN scanTasks : LoadUpdateID(t)
  \/ \E t \in DOMAIN scanTasks : StoreUpdateID(t)

ScanSpec == ScanInit /\ [][ScanNext]_vars

\* ---- AVTransportController and /api/cast --------------------------------------
StatusOK == 200
\* c.httpClient.Do(req) returned an error (refused, timeout): no status at all.
NoAnswer == 0
\* What a renderer answers to a SOAP request.
Answers == {NoAnswer, StatusOK, 201, 204, 400, 500}

\* The error value nil.
NoError == <<>>

\* sendSOAPActionWithResponse, its result as a function of the answer.
sendSOAPActionWithResponse(answer) ==
  IF answer = NoAnswer THEN <<"failed to send request">>
  ELSE IF answer # StatusOK THEN <<"SOAP action failed with status", answer>>
  ELSE NoError

\* A command of the controller (SetAVTransportURI, Play): the control URL is
\* looked up in the device description; without one nothing is sent, otherwise
\* the SOAP request goes out and sendSOAPAction folds the answer into an error.
ErrNoControlURL == <<"AVTransport control URL not found for device">>

\* The body /api/cast decodes into CastRequest, or a body that is not JSON.
\* subtitle_index is optional: <<>> when the field is absent.
CastBodies ==
  [valid : {TRUE}, movie_id : MovieIDs, device_uuid : {UuidA, UsnNoID},
   subtitle_path : {NoValue, <<"/", "s", "r", "t">>},
   subtitle_index : {<<>>, <<0>>, <<1>>, <<2>>, <<10>>, <<11>>}, transcode : BOOLEAN]
  \cup
  [valid : {FALSE}, movie_id : {UnknownID}, device_uuid : {UsnNoID},
   subtitle_path : {NoValue}, subtitle_index : {<<>>}, transcode : {FALSE}]

\* json.Decode into the int field SubtitleIndex: an absent field leaves 0.
DecodeIndex(field) == IF field = <<>> THEN 0 ELSE field[1]

\* string(rune(n + '0')): the one character whose code point is n above that
\* of '0'.  After '9' come ':' and ';'.
FromZero == Digits \o <<":", ";">>
RuneString(n) == <<FromZero[n + 1]>>

\* The stream URL handleCast builds, after a.serverAddr: path elements and
\* query parameters.
StreamURL(movieID, Transcode, SubtitlePath, SubtitleIndex) ==
  LET isTranscoding == Transcode \/ SubtitlePath # NoValue \/ SubtitleIndex > 0
  IN [path  |-> IF isTranscoding
                THEN <<"stream", ToString(movieID), "hls", "playlist.m3u8">>
                ELSE <<"stream", ToString(movieID)>>,
      query |-> (IF isTranscoding THEN <<<<"transcode", <<"1">>>>>> ELSE <<>>)
                \o (IF SubtitlePath # NoValue THEN <<<<"subtitle", SubtitlePath>>>> ELSE <<>>)
                \o (IF SubtitleIndex > 0
                    THEN <<<<"subtitle_index", RuneString(SubtitleIndex)>>>>
                    ELSE <<>>)]

NoURL == [path |-> <<>>, query |-> <<>>]

\* r.URL.Query().Get(key) on the request the renderer makes for the URL u:
\* url.ParseQuery drops a `key=value` setting that holds a semicolon, Query
\* drops the error, and Get gives the first value left, or "".
QueryGet(u, key) ==
  LET kept == SelectSeq(u.query, LAMBDA kv : kv[1] = key /\ ~IsIn(";", kv[2]))
  IN IF kept = <<>> THEN <<>> ELSE kept[1][2]

\* serveHLSPlaylist: the subtitleIndex it makes of the query of u.
subtitleIndexOf(u) ==
  LET subtitleIndexStr == QueryGet(u, "subtitle_index")
  IN IF subtitleIndexStr # <<>> THEN Atoi(subtitleIndexStr) ELSE -1

CastAnswer(code, body) == [cast EXCEPT !.pc = "done", !.code = code, !.body = body]

\* handleCast up to the stream URL.
handleCast ==
  /\ cast.pc = "handleCast"
  /\ LET b == cast.request
     IN cast' =
          IF cast.method # "POST" THEN CastAnswer(405, <<"Method not allowed">>)
          ELSE IF ~b.valid THEN CastAnswer(400, <<"Invalid request body">>)
          ELSE IF b.movie_id \notin Library THEN CastAnswer(404, <<"Movie not found">>)
          ELSE IF b.device_uuid \notin DOMAIN devices THEN CastAnswer(404, <<"Device not found">>)
          ELSE [cast EXCEPT !.pc = "SetAVTransportURI",
                            !.streamURL = StreamURL(b.movie_id, b.transcode, b.subtitle_path,
                                                    DecodeIndex(b.subtitle_index))]
  /\ UNCHANGED soapLog
  /\ UNCHANGED <<hlsVars, routeVars, copyVars, streamVars, ssdpVars, mainVars,
                 browseVars, scanVars, pipe, ctxVars, auxVars>>

\* a.avTransport.SetAVTransportURI(device, streamURL, movie.Title) and the
\* branch on its error; the variant that goes on to Play whatever it returned.
SetAVTransportURI_IgnoreError ==
  /\ cast.pc = "SetAVTransportURI"
  /\ \/ /\ cast' = [cast EXCEPT !.pc = "Play"]
        /\ UNCHANGED soapLog
     \/ \E answer \in Answers :
          LET err == sendSOAPActionWithResponse(answer)
          IN /\ soapLog' = Append(soapLog, [action |-> "SetAVTransportURI",
                                           device |-> cast.request.device_uuid,
                                           answer |-> answer, err |-> err])
             /\ cast' = [cast EXCEPT !.pc = "Play"]
  /\ UNCHANGED <<hlsVars, routeVars, copyVars, streamVars, ssdpVars, mainVars,
                 browseVars, scanVars, pipe, ctxVars, auxVars>>

SetAVTransportURI ==
  /\ cast.pc = "SetAVTransportURI"
  /\ \/ /\ cast' = CastAnswer(StatusOK, [error |-> ErrNoControlURL])
        /\ UNCHANGED soapLog
     \/ \E answer \in Answers :
          LET err == sendSOAPActionWithResponse(answer)
          IN /\ soapLog' = Append(soapLog, [action |-> "SetAVTransportURI",
                                           device |-> cast.request.device_uuid,
                                           answer |-> answer, err |-> err])
             /\ cast' = IF err # NoError THEN CastAnswer(StatusOK, [error |-> err])
                        ELSE [cast EXCEPT !.pc = "Play"]
  /\ UNCHANGED <<hlsVars, routeVars, copyVars, streamVars, ssdpVars, mainVars,
                 browseVars, scanVars, pipe, ctxVars, auxVars>>

\* a.avTransport.Play(device), the branch on its error, and the last answer.
Play ==
  /\ cast.pc = "Play"
  /\ \/ /\ cast' = CastAnswer(StatusOK, [error |-> ErrNoControlURL])
        /\ UNCHANGED soapLog
     \/ \E answer \in Answers :
          LET err == sendSOAPActionWithResponse(answer)
          IN /\ soapLog' = Append(soapLog, [action |-> "Play",
                                           device |-> cast.request.device_uuid,
                                           answer |-> answer, err |-> err])
             /\ cast' = IF err # NoError THEN CastAnswer(StatusOK, [error |-> err])
                        ELSE CastAnswer(StatusOK, [status |-> "playing",
                                                   stream_url |-> cast.streamURL])
  /\ UNCHANGED <<hlsVars, routeVars, copyVars, streamVars, ssdpVars, mainVars,
                 browseVars, scanVars, pipe, ctxVars, auxVars>>

\* A request arrives at /api/cast; the registry holds the renderer a.
CastInit ==
  /\ HlsIdle /\ RouteIdle /\ CopyIdle /\ StreamIdle /\ MainStarted
  /\ BrowseIdle /\ ScanIdle /\ PipeIdle /\ CtxIdle /\ HmsIdle /\ ArgsIdle /\ RunIdle /\ QueryIdle
  /\ devices = [u \in {UuidA} |-> [DeviceType |-> MediaRenderer, Location |-> LocTV,
                                   FriendlyName |-> NoValue, LastSeen |-> 0]]
  /\ ssdpIn = NoDatagram /\ ssdpOut = <<>> /\ ssdpElapsed = 0 /\ ssdpTick = FALSE
  /\ soapLog = <<>>
  /\ \E method \in {"POST", "GET"} :
       cast \in [pc : {"handleCast"}, method : {method},
                 request : IF method = "POST" THEN CastBodies
                           ELSE {b \in CastBodies : ~b.valid},
                 streamURL : {NoURL}, code : {NoAnswer}, body : {<<>>}]

CastNext == handleCast \/ SetAVTransportURI \/ Play

CastSpec == CastInit /\ [][CastNext]_vars

\* ---- StreamHandler.serveTranscodedStream (the MP4 pipe) -----------------------
\* child: "none" (never started), "running", "exited" (dead, not yet waited
\* for), "reaped" (cmd.Wait has returned).
PipeOthers == <<hlsVars, routeVars, copyVars, streamVars, ssdpVars, mainVars,
                browseVars, scanVars, castVars, ctxVars, auxVars>>

\* h.transcoder.Transcode(r.Context(), movie, opts): cmd.Start() starts the
\* child, or fails (and then, or when a pipe could not be made, there is no
\* child) and the handler answers 500.
Transcode ==
  /\ pipe.pc = "Transcode"
  /\ \/ pipe' = [pipe EXCEPT !.pc = "io.Copy", !.child = "running"]
     \/ pipe' = [pipe EXCEPT !.pc = "returned", !.code = 500]
  /\ UNCHANGED PipeOthers

\* The client goes away: the server cancels r.Context().
PipeDisconnect ==
  /\ pipe.pc \in {"Transcode", "io.Copy"}
  /\ ~pipe.ctxDone
  /\ pipe' = [pipe EXCEPT !.ctxDone = TRUE]
  /\ UNCHANGED PipeOthers

\* exec.CommandContext: once the context is done the command's watcher kills
\* the process.
ContextKill ==
  /\ pipe.ctxDone /\ pipe.child = "running"
  /\ pipe' = [pipe EXCEPT !.child = "exited"]
  /\ UNCHANGED PipeOthers

\* ffmpeg writes a chunk of output to its stdout pipe.
ChildWrite ==
  /\ pipe.child = "running" /\ pipe.produced < MaxChunks
  /\ pipe' = [pipe EXCEPT !.produced = @ + 1]
  /\ UNCHANGED PipeOthers

\* ffmpeg ends by itself, at the end of the movie or on an error.
ChildExit ==
  /\ pipe.child = "running"
  /\ pipe' = [pipe EXCEPT !.child = "exited"]
  /\ UNCHANGED PipeOthers

\* io.Copy(w, reader), one turn: a chunk is read and written to the client, or
\* the write fails (always possible; certain once the client is gone), or the
\* read meets the end of the stream; on the last two io.Copy returns and the
\* handler returns, which runs the deferred reader.Close().
ioCopy ==
  /\ pipe.pc = "io.Copy"
  /\ \/ /\ pipe.sent < pipe.produced /\ ~pipe.ctxDone
        /\ pipe' = [pipe EXCEPT !.sent = @ + 1]
     \/ /\ pipe.sent < pipe.produced
        /\ pipe' = [pipe EXCEPT !.pc = "Close"]
     \/ /\ pipe.sent = pipe.produced /\ pipe.child = "exited"
        /\ pipe' = [pipe EXCEPT !.pc = "Close"]
  /\ UNCHANGED PipeOthers

\* transcodeReader.Close, run by the handler's defer: r.ReadCloser.Close()
\* closes the read end of the child's stdout ...
readCloserClose ==
  /\ pipe.pc = "Close"
  /\ pipe' = [pipe EXCEPT !.pc = "Kill"]
  /\ UNCHANGED PipeOthers

\* ... r.cmd.Process.Kill() kills the child (an error when it is dead already,
\* which is not looked at) ...
processKill ==
  /\ pipe.pc = "Kill"
  /\ pipe' = [pipe EXCEPT !.pc = "Wait", !.child = IF @ = "running" THEN "exited" ELSE @]
  /\ UNCHANGED PipeOthers

\* (Close returning here, without waiting for the child.)
cmdWait_Skipped ==
  /\ pipe.pc = "Wait"
  /\ pipe' = [pipe EXCEPT !.pc = "returned", !.code = 200]
  /\ UNCHANGED PipeOthers

\* ... and r.cmd.Wait() blocks until the child has exited and reaps it; then
\* the handler is done.
cmdWait ==
  /\ pipe.pc = "Wait"
  /\ pipe.child = "exited"
  /\ pipe' = [pipe EXCEPT !.pc = "returned", !.code = 200, !.child = "reaped"]
  /\ UNCHANGED PipeOthers

PipeInit ==
  /\ HlsIdle /\ RouteIdle /\ CopyIdle /\ StreamIdle /\ SsdpIdle /\ MainStarted
  /\ BrowseIdle /\ ScanIdle /\ CastIdle /\ CtxIdle /\ HmsIdle /\ ArgsIdle /\ RunIdle /\ QueryIdle
  /\ pipe = [NoPipe EXCEPT !.pc = "Transcode"]

PipeNext ==
  \/ Transcode
  \/ PipeDisconnect
  \/ ContextKill
  \/ ChildWrite
  \/ ChildExit
  \/ ioCopy
  \/ readCloserClose
  \/ processKill
  \/ cmdWait

PipeSpec == PipeInit /\ [][PipeNext]_vars

\* ---- durations and positions as text ------------------------------------------
Colon == <<":">>

\* fmt's %02d and JavaScript's n.toString().padStart(2, '0'), for n >= 0.
Pad2(n) == IF n < 10 THEN <<"0">> \o Itoa(n) ELSE Itoa(n)

\* buildMovieItem: fmt.Sprintf("%d:%02d:%02d", hours, minutes, seconds) of
\* movie.Duration.
durationText(Duration) ==
  LET hours   == Duration \div 3600
      minutes == (Duration % 3600) \div 60
      seconds == Duration % 60
  IN Itoa(hours) \o Colon \o Pad2(minutes) \o Colon \o Pad2(seconds)

\* JavaScript's Number(s) on a run of decimal digits; Number("") is 0.
Number(s) == DigitsValue(s, 0)

\* api.js parseDuration(timeStr).
parseDuration(timeStr) ==
  IF timeStr = <<>> THEN 0
  ELSE LET parts == SplitOn(timeStr, {":"}) IN
       IF Len(parts) = 3
       THEN Number(parts[1]) * 3600 + Number(parts[2]) * 60 + Number(parts[3])
       ELSE IF Len(parts) = 2 THEN Number(parts[1]) * 60 + Number(parts[2])
       ELSE Number(parts[1])

\* main.js formatTimeForSeek(seconds).
formatTimeForSeek(seconds) ==
  LET hours   == seconds \div 3600
      minutes == (seconds % 3600) \div 60
      secs    == seconds % 60
  IN Itoa(hours) \o Colon \o Pad2(minutes) \o Colon \o Pad2(secs)

\* Durations of movies, and the fields of the times a renderer reports as
\* RelTime or TrackDuration: two digits each.
Durations == {0, 7, 59, 60, 3599, 3600, 3661, 35999, 36000, 359999}
HourFields == {0, 1, 9, 10, 99}
MinuteFields == {0, 5, 59}
SecondFields == {0, 7, 59}

\* The time h:m:s written with two digits in every field.
HHMMSS(h, m, s) == Pad2(h) \o Colon \o Pad2(m) \o Colon \o Pad2(s)

WellFormedTimes ==
  {HHMMSS(h, m, s) : h \in HourFields, m \in MinuteFields, s \in SecondFields}

ClockOthers ==
  <<hlsVars, routeVars, copyVars, streamVars, ssdpVars, mainVars,
    browseVars, scanVars, castVars, pipe, ctxVars, ffargs, ssdpRun, hlsQuery, procQuery>>

\* buildMovieItem writes the duration attribute of the movie's <res>.
buildMovieItem ==
  /\ hms.pc = "idle"
  /\ hms' = [hms EXCEPT !.pc = "text", !.origin = "item",
                        !.text = durationText(hms.Duration)]
  /\ UNCHANGED ClockOthers

\* GetPositionInfo: RelTime / TrackDuration of the renderer's answer go into
\* the status unchanged.
GetPositionInfo ==
  /\ hms.pc = "idle"
  /\ \E x \in WellFormedTimes :
       hms' = [hms EXCEPT !.pc = "text", !.origin = "renderer", !.text = x]
  /\ UNCHANGED ClockOthers

\* updatePlaybackStatus: the page reads the time of the status as seconds.
updatePlaybackStatus ==
  /\ hms.pc = "text"
  /\ hms' = [hms EXCEPT !.pc = "seconds", !.seconds = parseDuration(hms.text)]
  /\ UNCHANGED ClockOthers

\* seekTo: position = formatTimeForSeek(seconds).
seekTo ==
  /\ hms.pc = "seconds"
  /\ hms' = [hms EXCEPT !.pc = "position", !.position = formatTimeForSeek(hms.seconds)]
  /\ UNCHANGED ClockOthers

\* AVTransportController.Seek: <Target>position</Target>, as received.
Seek ==
  /\ hms.pc = "position"
  /\ hms' = [hms EXCEPT !.pc = "sought", !.Target = hms.position]
  /\ UNCHANGED ClockOthers

ClockInit ==
  /\ HlsIdle /\ RouteIdle /\ CopyIdle /\ StreamIdle /\ SsdpIdle /\ MainStarted
  /\ BrowseIdle /\ ScanIdle /\ CastIdle /\ PipeIdle /\ CtxIdle /\ ArgsIdle /\ RunIdle /\ QueryIdle
  /\ hms \in {[NoHms EXCEPT !.Duration = d] : d \in Durations}

ClockNext ==
  \/ buildMovieItem
  \/ GetPositionInfo
  \/ updatePlaybackStatus
  \/ seekTo
  \/ Seek

ClockSpec == ClockInit /\ [][ClockNext]_vars

\* ---- Transcoder.buildFFmpegArgs -------------------------------------------------
\* An argument or a filter is a tuple: its text, then the values printed into it.
MoviePath == <<"/", "movies", "/", "a", ".", "mkv">>
SubtitleFile == <<"/", "movies", "/", "a", ".", "srt">>

\* The chain with the embedded track asked first: an index >= 0 hides the path.
videoFilters_IndexFirst(FilePath, opts) ==
  LET download == IF opts.UseHardwareAccel
                  THEN <<<<"hwdownload">>, <<"format=nv12">>>> ELSE <<>>
      subtitle == IF opts.SubtitleIndex >= 0
                  THEN <<<<"subtitles", FilePath, "si", opts.SubtitleIndex>>>>
                  ELSE IF opts.SubtitlePath # NoPath
                       THEN <<<<"subtitles", opts.SubtitlePath>>>>
                       ELSE <<>>
      scale    == IF opts.Width > 0 \/ opts.Height > 0
                  THEN <<<<"scale", IF opts.Width = 0 THEN -2 ELSE opts.Width,
                                    IF opts.Height = 0 THEN -2 ELSE opts.Height>>>>
                  ELSE <<>>
      upload   == IF opts.UseHardwareAccel
                  THEN <<<<"format=nv12">>, <<"hwupload">>>> ELSE <<>>
  IN download \o subtitle \o scale \o upload

\* videoFilters as buildFFmpegArgs appends to it.
videoFilters(FilePath, opts) ==
  LET download == IF opts.UseHardwareAccel
                  THEN <<<<"hwdownload">>, <<"format=nv12">>>> ELSE <<>>
      subtitle == IF opts.SubtitlePath # NoPath
                  THEN <<<<"subtitles", opts.SubtitlePath>>>>
                  ELSE IF opts.SubtitleIndex >= 0
                       THEN <<<<"subtitles", FilePath, "si", opts.SubtitleIndex>>>>
                       ELSE <<>>
      scale    == IF opts.Width > 0 \/ opts.Height > 0
                  THEN <<<<"scale", IF opts.Width = 0 THEN -2 ELSE opts.Width,
                                    IF opts.Height = 0 THEN -2 ELSE opts.Height>>>>
                  ELSE <<>>
      upload   == IF opts.UseHardwareAccel
                  THEN <<<<"format=nv12">>, <<"hwupload">>>> ELSE <<>>
  IN download \o subtitle \o scale \o upload

\* filepath.Join(dir, name): empty elements are ignored, the rest is joined
\* with the separator and cleaned.
Join(dir, name) ==
  IF dir = <<>> THEN Clean(name)
  ELSE IF name = <<>> THEN Clean(dir)
       ELSE Clean(dir \o Separator \o name)

\* The codec arguments, for the hardware and the software encoders.
videoCodecArgs(opts) ==
  LET hevc == opts.VideoCodec \in {"hevc", "h265"} IN
  IF opts.UseHardwareAccel
  THEN <<<<"-c:v">>, IF hevc THEN <<"hevc_rkmpp">> ELSE <<"h264_rkmpp">>>>
  ELSE IF hevc
       THEN <<<<"-c:v">>, <<"libx265">>, <<"-pix_fmt">>, <<"yuv420p">>>>
       ELSE <<<<"-c:v">>, <<"libx264">>, <<"-preset">>, <<"config.Preset">>,
              <<"-pix_fmt">>, <<"yuv420p">>, <<"-profile:v">>, <<"high">>,
              <<"-level:v">>, <<"4.0">>, <<"-colorspace">>, <<"bt709">>,
              <<"-color_primaries">>, <<"bt709">>, <<"-color_trc">>, <<"bt709">>,
              <<"-color_range">>, <<"tv">>>>

\* The output arguments: the HLS muxer writing into opts.OutputPath, or
\* fragmented MP4 on stdout.
outputArgs(opts) ==
  IF opts.Format = "hls"
  THEN <<<<"-g">>, <<"300">>, <<"-keyint_min">>, <<"300">>, <<"-sc_threshold">>, <<"0">>,
         <<"-f">>, <<"hls">>, <<"-hls_time">>, <<"10">>, <<"-hls_list_size">>, <<"0">>,
         <<"-hls_segment_filename">>,
         <<"path", Join(opts.OutputPath, <<"segment_%03d", ".", "ts">>)>>,
         <<"-hls_flags">>, <<"independent_segments">>,
         <<"-hls_playlist_type">>, <<"event">>, <<"-start_number">>, <<"0">>,
         <<"path", Join(opts.OutputPath, PlaylistFile)>>>>
  ELSE <<<<"-movflags">>, <<"frag_keyframe+empty_moov+faststart">>,
         <<"-f">>, <<"mp4">>, <<"pipe:1">>>>

\* buildFFmpegArgs(movie, opts).
FFmpegArgs(FilePath, opts) ==
  LET chain == videoFilters(FilePath, opts) IN
     <<<<"-hide_banner">>, <<"-loglevel">>, <<"warning">>>>
  \o (IF opts.UseHardwareAccel
      THEN <<<<"-hwaccel">>, <<"rkmpp">>, <<"-hwaccel_output_format">>, <<"drm_prime">>>>
      ELSE <<>>)
  \o (IF opts.StartTime > 0 THEN <<<<"-ss">>, <<"int", opts.StartTime>>>> ELSE <<>>)
  \o <<<<"-i">>, <<"path", FilePath>>>>
  \o (IF opts.Duration > 0 THEN <<<<"-t">>, <<"int", opts.Duration>>>> ELSE <<>>)
  \o (IF Len(chain) > 0 THEN <<<<"-vf">>, <<"filters", chain>>>> ELSE <<>>)
  \o videoCodecArgs(opts)
  \o <<<<"-b:v">>, <<"opts.VideoBitrate">>>>
  \o <<<<"-c:a">>, <<"opts.AudioCodec">>, <<"-b:a">>, <<"opts.AudioBitrate">>>>
  \o outputArgs(opts)

\* The options buildFFmpegArgs is called with: StartHLSTranscode sets Format
\* to "hls" and its caller OutputPath to the session's directory; Transcode
\* is called with neither.
TranscodeOptions ==
  {o \in [VideoCodec : {"h264", "hevc"}, Width : {0, 1280}, Height : {0, 720},
          SubtitlePath : {NoPath, SubtitleFile}, SubtitleIndex : {-1, 0, 2},
          StartTime : {-1, 0, 90}, Duration : {0, 60},
          UseHardwareAccel : BOOLEAN, Format : {"", "mp4", "hls"},
          OutputPath : {NoPath, SessionDir(1)}] :
     (o.Format = "hls") <=> (o.OutputPath # NoPath)}

ArgsOthers ==
  <<hlsVars, routeVars, copyVars, streamVars, ssdpVars, mainVars,
    browseVars, scanVars, castVars, pipe, ctxVars, hms, ssdpRun, hlsQuery, procQuery>>

buildFFmpegArgs ==
  /\ ffargs.pc = "idle"
  /\ ffargs' = [ffargs EXCEPT !.pc = "built",
                              !.args = FFmpegArgs(MoviePath, ffargs.opts)]
  /\ UNCHANGED ArgsOthers

ArgsInit ==
  /\ HlsIdle /\ RouteIdle /\ CopyIdle /\ StreamIdle /\ SsdpIdle /\ MainStarted
  /\ BrowseIdle /\ ScanIdle /\ CastIdle /\ PipeIdle /\ CtxIdle /\ HmsIdle /\ RunIdle /\ QueryIdle
  /\ ffargs \in {[NoArgs EXCEPT !.opts = o] : o \in TranscodeOptions}

ArgsNext == buildFFmpegArgs

ArgsSpec == ArgsInit /\ [][ArgsNext]_vars

\* ---- request contexts and the HLS transcoders --------------------------------
\* The context of a request of task r is done: its client went away, or its
\* handler returned.  exec.CommandContext kills the processes started with it.
CancelContext(r) ==
  /\ r \notin cancelled
  /\ req[r].pc # "idle" \/ req[r].status # "none"
  /\ cancelled' = cancelled \cup {r}
  /\ procs' = [p \in DOMAIN procs |->
                 IF procCtx[p] = RequestContext(r)
                 THEN [procs[p] EXCEPT !.alive = FALSE] ELSE procs[p]]
  /\ UNCHANGED <<sessions, dirs, nextID, stopped, cleanupAlive, tick, req, terminated,
                 routeVars, copyVars, streamVars, ssdpVars, mainVars,
                 browseVars, scanVars, castVars, pipe, procCtx, auxVars>>

\* The session manager with one request task whose client may go away.
DetachNext ==
  \/ NextOf({1})
  \/ CancelContext(1)

DetachSpec == Init /\ [][DetachNext]_vars

\* ==== properties ============================================================

\* The transcoder processes started with output directory <base>/<s>.
SpawnedFor(s) == {p \in DOMAIN procs : procs[p].dir = s}

\* C1: for every movie id, two concurrent playlist requests spawn exactly one
\* transcoder for the session they open, and both use the same session: no
\* session ever has two transcoders started for it, and two handlers holding
\* live sessions of the same movie hold the same one.
C1_OneTranscoderPerSession ==
  /\ \A s \in SessionIDs : Cardinality(SpawnedFor(s)) <= 1
  /\ \A r1, r2 \in Requests :
       ( /\ req[r1].session \in DOMAIN sessions
         /\ req[r2].session \in DOMAIN sessions
         /\ req[r1].movieID = req[r2].movieID )
       => req[r1].session = req[r2].session

\* At most one session of the map carries a given movie id.
OneSessionPerMovie ==
  \A a, b \in DOMAIN sessions : sessions[a].MovieID = sessions[b].MovieID => a = b

\* A step of request r inside CreateSession (either half).
InCreateSession(r) ==
  /\ req[r].pc \in {"CreateSession", "CreateSessionLocked"}
  /\ req'[r] # req[r]

\* C2: in every reachable state the session map holds at most one session per
\* movie id, and a CreateSession for a movie that already has a session
\* returns that session and inserts nothing.
C2_OneSessionPerMovie ==
  /\ []OneSessionPerMovie
  /\ [][\A r \in Requests :
          (InCreateSession(r) /\ Lookup(req[r].movieID) # {})
          => /\ DOMAIN sessions' = DOMAIN sessions
             /\ dirs' = dirs
             /\ req'[r].session \in Lookup(req[r].movieID)]_vars

\* Two handlers came out of CreateSession with the same session: one of them
\* was handed the session the other had inserted.
C2_Witness ==
  \E r1, r2 \in Requests :
    /\ r1 # r2
    /\ req[r1].pc = "StartHLSTranscode" /\ req[r2].pc = "StartHLSTranscode"
    /\ req[r1].session = req[r2].session
    /\ req[r1].session \in DOMAIN sessions

\* C3: in every reachable state the scratch directory <base>/<s> exists if and
\* only if s is an entry of the session map.
C3_DirIffSession == DOMAIN dirs = DOMAIN sessions

\* C4: at the teardown of a session (idle GC or Stop) no transcoder process
\* that was spawned for it is left running.
C4_TeardownKillsAll ==
  [][\A s \in terminated' \ terminated :
       \A p \in SpawnedFor(s) : ~procs'[p].alive]_vars

\* A step of the idle sweep: only cleanupOldSessions takes the tick out of
\* the ticker's channel.
SweepStep == tick /\ ~tick'

\* What one sweep does to session id: gone with its directory and the stored
\* process killed when idle for more than the timeout, untouched otherwise.
SweptRight(id) ==
  IF sessions[id].LastAccessed > SessionTimeout
  THEN /\ id \notin DOMAIN sessions'
       /\ id \notin DOMAIN dirs'
       /\ sessions[id].Process # Nil => ~procs'[sessions[id].Process].alive
  ELSE /\ id \in DOMAIN sessions' /\ sessions'[id] = sessions[id]
       /\ (id \in DOMAIN dirs) = (id \in DOMAIN dirs')
       /\ id \in DOMAIN dirs => dirs'[id] = dirs[id]
       /\ sessions[id].Process # Nil =>
            procs'[sessions[id].Process] = procs[sessions[id].Process]

C6_ExpiredThenFresh ==
  /\ []((~tick /\ ~stopped) =>
          \A id \in DOMAIN sessions : sessions[id].LastAccessed <= SessionTimeout)
  /\ [][/\ \A r \in Requests, m \in MovieIDs :
             (serveHLSSegment(r, m) /\ Lookup(m) = {})
             => /\ req'[r].status = "404 Session expired" /\ req'[r].pc = "idle"
                /\ sessions' = sessions /\ dirs' = dirs /\ procs' = procs
        /\ \A id \in DOMAIN sessions' \ DOMAIN sessions :
             /\ id \notin terminated /\ id \notin DOMAIN dirs
             /\ id \in DOMAIN dirs' /\ dirs'[id] = {}]_vars

\* A session was evicted by the sweep, a segment request for its movie was
\* answered 404 "Session expired", and a playlist request has since created a
\* new session of that movie in a new directory.
C6_Witness ==
  /\ ~stopped
  /\ \E old \in terminated, new \in DOMAIN sessions, r \in Requests :
       /\ old # new /\ old \notin DOMAIN sessions
       /\ new \in DOMAIN dirs
       /\ req[r].status = "404 Session expired"
       /\ req[r].movieID = sessions[new].MovieID

\* C7: when the spawn fails the handler answers 500 and leaves no session
\* behind: neither the map entry nor the scratch directory of the session it
\* was about to start remain.
C7_SpawnFailureCleansUp ==
  [][\A r \in Requests :
       ( /\ req[r].pc = "StartHLSTranscode"
         /\ req'[r].status = "500 Failed to start HLS transcoding" )
       => /\ req[r].session \notin DOMAIN sessions'
          /\ req[r].session \notin DOMAIN dirs']_vars

\* C8: a segment request never creates a session, a directory or a process,
\* and is answered 404 "Session expired" when the movie has no session; a
\* session is only ever inserted by a playlist request inside CreateSession.
C8_SegmentNeverCreates ==
  [][/\ \A r \in Requests, m \in MovieIDs :
          serveHLSSegment(r, m)
          => /\ DOMAIN sessions' = DOMAIN sessions /\ dirs' = dirs /\ procs' = procs
             /\ Lookup(m) = {} =>
                  /\ req'[r].status = "404 Session expired"
                  /\ req'[r].pc = "idle"
                  /\ sessions' = sessions
     /\ \A r \in Requests :
          (req[r].pc = "CopySegment" /\ req'[r] # req[r])
          => sessions' = sessions /\ dirs' = dirs /\ procs' = procs
     /\ (~(DOMAIN sessions' \subseteq DOMAIN sessions) \/ Len(procs') # Len(procs)
           \/ ~(DOMAIN dirs' \subseteq DOMAIN dirs))
        => \E r \in Requests :
             /\ req[r].pc \in {"CreateSessionLocked", "StartHLSTranscode"}
             /\ req'[r] # req[r]]_vars

\* A segment request for a library movie found no session and was answered
\* 404 "Session expired"; nothing exists for the movie.
C8_Witness ==
  \E r \in Requests :
    /\ req[r].status = "404 Session expired"
    /\ req[r].movieID \in Library
    /\ sessions = <<>> /\ dirs = <<>> /\ procs = <<>>

StrictlyUnder(p, d) ==
  /\ Len(p) > Len(d) + 1
  /\ SubSeq(p, 1, Len(d) + 1) = d \o Separator

\* C10: whatever file a request /stream/{id}/hls/<filename> makes the segment
\* handler open lies strictly under the scratch directory of a session of
\* movie {id}.
C10_SegmentUnderSessionDir ==
  opened # <<>> =>
    \E id \in DOMAIN sessions :
      /\ SubSeq(url, 1, 7) = HLSPrefix(sessions[id].MovieID)
      /\ StrictlyUnder(opened, SessionDir(id))

\* The request /stream/1/hls/segment_000.ts was served from the directory of
\* movie 1's session.
SegmentServedFromSessionDir ==
  /\ url = HLSPrefix(1) \o SegmentFile
  /\ routed = "200"
  /\ opened = SessionDir(1) \o Separator \o SegmentFile

\* The request went to one of the two stream handlers.
Streamed == served \in {"serveDirectStream", "serveTranscodedStream"}

\* The codec is, in lower case, one of h264, avc, avc1.
Compatible(codec) ==
  ToLower(codec) \in {<<"h", "2", "6", "4">>, <<"a", "v", "c">>, <<"a", "v", "c", "1">>}

DirectIffNoSubtitleSelected ==
  /\ Streamed <=> (served # "none" /\ streamReq.movieID \in Library
                     /\ streamReq.format # <<"h", "l", "s">>)
  /\ Streamed =>
       ( served = "serveDirectStream"
         <=> /\ streamReq.transcode # <<"1">>
             /\ streamReq.subtitle = <<>>
             /\ (streamReq.subtitle_index = <<>> \/ Atoi(streamReq.subtitle_index) < 0)
             /\ Compatible(streamReq.codec) )

\* A file whose codec is written AvC1 was served directly to a request with
\* transcode=0 and no subtitle.
DirectServedFoldedCodec ==
  /\ served = "serveDirectStream"
  /\ streamReq.codec = <<"A", "v", "C", "1">>
  /\ streamReq.transcode = <<"0">>
  /\ streamReq.subtitle_index = <<>>

\* The name has a ".." element.
HasDotDot(name) ==
  \E i \in 1..Len(SplitOn(name, PathSeparators)) :
    SplitOn(name, PathSeparators)[i] = DotDot

\* C11: CopySegment answers with an error, and hands nothing to os.Open, for
\* every name that is absolute, has a ".." element or differs from its cleaned
\* form.
C11_RejectsUnsafeNames ==
  (copied # "none"
     /\ (IsAbs(copyName) \/ HasDotDot(copyName) \/ Clean(copyName) # copyName))
  => (copied = "ErrPermission" /\ opened = <<>>)

\* What the validation does reject: the absolute names, the names that differ
\* from their cleaned form, and "..".
RejectsUncleanNames ==
  (copied # "none"
     /\ (IsAbs(copyName) \/ Clean(copyName) # copyName \/ copyName = DotDot))
  => (copied = "ErrPermission" /\ opened = <<>>)

\* CopySegment for session 1 copied the segment of session 2.
CopiedFromOtherSession ==
  /\ copyName = <<".", ".", "/", "2", "/">> \o SegmentFile
  /\ copied = "nil"
  /\ opened = SessionDir(2) \o Separator \o SegmentFile

\* On the platforms whose only separator is "/", the file a segment request
\* opens lies strictly under the directory of the movie's session.
SegmentUnderSessionDirOnUnix == goos # "windows" => C10_SegmentUnderSessionDir

\* A segment request on windows opened a file outside every session directory.
EscapedOnWindows ==
  /\ goos = "windows"
  /\ opened # <<>>
  /\ \A id \in DOMAIN sessions : ~StrictlyUnder(opened, SessionDir(id))

\* C13: every entry of the registry was last seen at most 2 * max-age
\* (3600 s) ago, in every reachable state, so GetDevices and GetDevice never
\* show an older one.
C13_NoStaleDeviceVisible == \A d \in GetDevices : d.LastSeen <= StaleAfter

\* What the sweeper does keep: no entry is older than 2 * max-age plus one
\* sweeper period.
NoDeviceOlderThanOneMoreSweep ==
  \A d \in GetDevices : d.LastSeen <= StaleAfter + DeviceSweepEvery

\* Between two sweeps, with no tick pending, the registry shows an entry last
\* seen more than 2 * max-age ago.
StaleDeviceBetweenSweeps ==
  ~ssdpTick /\ \E d \in GetDevices : d.LastSeen > StaleAfter

\* The listener handles the datagram it has read.
HandleStep == ssdpIn # NoDatagram /\ ssdpIn' = NoDatagram

IsNotify(msg)         == HasPrefix(msg.start, <<"N", "O", "T", "I", "F", "Y">>)
IsSearch(msg)         == HasPrefix(msg.start, <<"M", "-", "S", "E", "A", "R", "C", "H">>)
IsSearchResponse(msg) == ~IsSearch(msg) /\ ~IsNotify(msg) /\ HasPrefix(msg.start, <<"H", "T", "T", "P", "/", "1", ".", "1", " ", "2", "0", "0">>)

\* One of the renderer keywords occurs, in any case, in the service-type
\* header (NT of a NOTIFY, ST of a search response) or in the location URL,
\* or the datagram answers an ssdp:all search.
RendererKeywords ==
  {<<"m", "e", "d", "i", "a", "r", "e", "n", "d", "e", "r", "e", "r">>, <<"a", "v", "t", "r", "a", "n", "s", "p", "o", "r", "t">>, <<"r", "e", "n", "d", "e", "r", "i", "n", "g", "c", "o", "n", "t", "r", "o", "l">>, <<"t", "v", "r", "e", "n", "d", "e", "r", "e", "r">>,
   <<"r", "e", "n", "d", "e", "r">>, <<"t", "v">>, <<"d", "i", "s", "p", "l", "a", "y">>}
Classified(msg) ==
  LET type == IF IsNotify(msg) THEN Header(msg.headers, "NT", "nt")
              ELSE Header(msg.headers, "ST", "st")
      loc  == Header(msg.headers, "LOCATION", "location")
  IN \/ \E kw \in RendererKeywords :
          Contains(ToLower(type), kw) \/ Contains(ToLower(loc), kw)
     \/ IsSearchResponse(msg) /\ Header(msg.headers, "ST", "st") = ssdpAll

\* C14: handling a datagram changes the registry only if it is a NOTIFY or a
\* search response that is classified as a renderer and whose USN yields a
\* non-empty uuid; every other datagram leaves the registry as it is.
C14_OnlyRenderersChangeRegistry ==
  [][(HandleStep /\ devices' # devices)
     => /\ IsNotify(ssdpIn) \/ IsSearchResponse(ssdpIn)
        /\ Classified(ssdpIn)
        /\ extractUUID(Header(ssdpIn.headers, "USN", "usn")) # NoValue]_vars

\* An AVTransport announcement of renderer a has been taken into the registry.
C14_Witness ==
  /\ ssdpIn = NoDatagram
  /\ UuidA \in DOMAIN devices
  /\ devices[UuidA].DeviceType = AVTransport
  /\ devices[UuidA].LastSeen = 0

\* C15: once the listener has handled a NOTIFY with NTS ssdp:byebye whose USN
\* carries uuid u, the registry holds no entry for u, whatever NT and LOCATION
\* the datagram carries.
C15_ByebyeRemoves ==
  [][(HandleStep /\ IsNotify(ssdpIn)
        /\ Header(ssdpIn.headers, "NTS", "nts") = ssdpByebye
        /\ extractUUID(Header(ssdpIn.headers, "USN", "usn")) # NoValue)
     => extractUUID(Header(ssdpIn.headers, "USN", "usn")) \notin DOMAIN devices']_vars

\* What a farewell does: the entry is removed when the datagram itself is
\* classified as a renderer by its NT or LOCATION.
ByebyeOfRendererRemoves ==
  [][(HandleStep /\ IsNotify(ssdpIn)
        /\ Header(ssdpIn.headers, "NTS", "nts") = ssdpByebye
        /\ LooksLikeRenderer(Header(ssdpIn.headers, "NT", "nt"),
                             Header(ssdpIn.headers, "LOCATION", "location")))
     => extractUUID(Header(ssdpIn.headers, "USN", "usn")) \notin DOMAIN devices']_vars

\* The entry AddManualDevice(ip, port, path, name) inserts.
ManualEntry(ip, port, path, name) ==
  [DeviceType |-> ManualType, Location |-> <<"h", "t", "t", "p", ":", "/", "/">> \o ip \o <<":">> \o port \o path,
   FriendlyName |-> name, LastSeen |-> 0]

\* C16: AddManualDevice inserts the entry manual-<ip>-<port> when there is
\* none, touching no other entry, and leaves the whole registry unchanged
\* when there is one.
C16_AddManualIdempotent ==
  [][\A path \in {KnownPath, OtherPath}, name \in {KnownName, OtherName} :
       AddManualDevice(KnownIP, KnownPort, path, name)
       => IF ManualUUID \in DOMAIN devices
          THEN devices' = devices
          ELSE /\ DOMAIN devices' = DOMAIN devices \cup {ManualUUID}
               /\ devices'[ManualUUID] = ManualEntry(KnownIP, KnownPort, path, name)
               /\ \A u \in DOMAIN devices : devices'[u] = devices[u]]_vars

\* The registry holds the entry a call with the other path and name inserted,
\* so that every further call finds it.
C16_Witness ==
  /\ ManualUUID \in DOMAIN devices
  /\ devices[ManualUUID] = ManualEntry(KnownIP, KnownPort, OtherPath, OtherName)
  /\ UuidA \in DOMAIN devices

\* C17: the listener answers an M-SEARCH if and only if its ST is one of the
\* five targets the server serves; the answer goes to the sender, echoes ST
\* and carries the server's LOCATION and USN; no other datagram is answered,
\* and an M-SEARCH leaves the registry as it is.
ServedTargets == {ssdpAll, rootdevice, MediaServer, ContentDirectory, ConnectionManager}
BlocksInOrder ==
  \E nts \in {"ssdp:alive", "ssdp:byebye"} :
    /\ Len(advSent) <= Len(types)
    /\ advSent = SubSeq(Block(nts), 1, Len(advSent))

\* C18: the advertiser sends an alive block of the four NOTIFYs, in the fixed
\* order, on start and on every tick of 900 s; and once shutdown is initiated
\* the same block goes out with NTS ssdp:byebye before the program ends.
C18_ByebyeBeforeExit ==
  /\ AdvertiseEvery = 900
  /\ []BlocksInOrder
  /\ [](Exited => advSent = Block("ssdp:byebye"))

\* The program has ended while the farewell block was being written.
ExitedWithinByebye ==
  /\ Exited
  /\ adv.pc = "sendNotify" /\ adv.nts = "ssdp:byebye"
  /\ Len(advSent) < Len(types)

\* C19: shutdown cancels the SSDP tasks, sends the farewell block, closes the
\* HTTP listener and then stops the HLS session manager, in this order; once
\* the program has ended no transcoder child runs and no scratch directory is
\* left.
C19_ShutdownOrder ==
  /\ [][(httpOpen /\ ~httpOpen') => (ssdpStopChan /\ advSent = Block("ssdp:byebye"))]_vars
  /\ [][(~stopped /\ stopped') => ~httpOpen]_vars
  /\ [](Exited => /\ stopped
                  /\ \A p \in DOMAIN procs : ~procs[p].alive
                  /\ dirs = <<>>)

\* The program has ended, the manager was never stopped, the transcoder runs
\* on and its scratch directory is still there.
ExitedWithChildRunning ==
  /\ Exited /\ ~stopped
  /\ \E p \in DOMAIN procs : procs[p].alive
  /\ dirs # <<>>

\* What main's shutdown does: stopChan is closed before the listener is
\* closed, and the listener is closed before the program ends.
StopThenShutdownThenExit ==
  /\ [](~httpOpen => ssdpStopChan)
  /\ [](Exited => ~httpOpen)

\* C20: after HLSManager.Stop every session's process is dead, every scratch
\* directory is removed, the session map is empty, and no sweep runs any more.
C20_StopTearsDownAll ==
  /\ [](stopped => /\ sessions = <<>>
                   /\ dirs = <<>>
                   /\ \A p \in DOMAIN procs : ~procs[p].alive)
  /\ [][stopped => ~SweepStep]_vars

Min(a, b) == IF a < b THEN a ELSE b
Max(a, b) == IF a > b THEN a ELSE b

\* What the claim expects of a Browse of "movies" with the numbers of browseReq.
ExpectedReturned ==
  LET count == IF browseReq.count = 0 THEN DefaultRequestedCount ELSE browseReq.count
  IN Min(count, Max(0, Cardinality(movies) - browseReq.start))

\* C21: every Browse of "movies" with StartingIndex start and RequestedCount
\* count (0 meaning 100) is answered with NumberReturned = min(count,
\* max(0, total - start)) items and TotalMatches = total.
C21_BrowseCounts ==
  browseRes.called =>
    /\ ~browseRes.panic
    /\ browseRes.NumberReturned = ExpectedReturned
    /\ Len(browseRes.items) = browseRes.NumberReturned
    /\ browseRes.TotalMatches = Cardinality(movies)

\* The same for the numbers an unsigned UPnP argument can hold.
BrowseCountsOfNaturals ==
  (browseReq.start >= 0 /\ browseReq.count >= 0) => C21_BrowseCounts

\* A Browse with a negative StartingIndex ended in a panic.
BrowsePanicked == browseRes.called /\ browseRes.panic /\ browseReq.start < 0

\* C22: pages of "movies" follow one fixed order: paging [0,k), [k,2k), ...
\* over an unchanged library returns every movie exactly once.
C22_PagesPartitionLibrary ==
  /\ \A i, j \in DOMAIN pager.got : i # j => pager.got[i] # pager.got[j]
  /\ Len(pager.got) >= Cardinality(movies) =>
       {pager.got[i] : i \in DOMAIN pager.got} = movies

\* The control point has paged through the library and holds one movie twice.
PagedWithDuplicate ==
  /\ Len(pager.got) = Cardinality(movies)
  /\ \E i, j \in DOMAIN pager.got : i # j /\ pager.got[i] = pager.got[j]

\* What paging does give: as many items as the library holds, all of them
\* movies of the library.
PagesCountRight ==
  /\ Len(pager.got) <= Cardinality(movies)
  /\ \A i \in DOMAIN pager.got : pager.got[i] \in movies

ScansCompleted == {t \in DOMAIN scanTasks : scanTasks[t].pc = "done"}
ScansInIncrement == {t \in DOMAIN scanTasks : scanTasks[t].pc = "store"}

\* C23: UpdateID starts at 1, never decreases, and is incremented exactly once
\* per completed scan: once n scans have completed, UpdateID = 1 + n.
C23_UpdateIDCountsScans ==
  /\ [](ScansInIncrement = {} => updateID = 1 + Cardinality(ScansCompleted))
  /\ [][updateID' >= updateID]_vars

\* Every scan asked for has completed and UpdateID shows fewer of them.
ScansDoneUpdateLost ==
  /\ Len(scanTasks) = MaxScans
  /\ ScansCompleted = DOMAIN scanTasks
  /\ updateID < 1 + MaxScans

\* What the unsynchronised counter still gives: it is at least 1, at least 2
\* once a scan has completed, and never more than 1 + the scans completed.
UpdateIDWithinScans ==
  /\ updateID >= 1
  /\ updateID <= 1 + Cardinality(ScansCompleted)
  /\ ScansCompleted # {} => updateID >= 2

\* ---- /api/cast ----
CastBuiltURL == cast.pc \in {"SetAVTransportURI", "Play", "done"} /\ cast.streamURL # NoURL
IsHlsURL(u) == u.path = <<"stream", ToString(cast.request.movie_id), "hls", "playlist.m3u8">>
IsDirectURL(u) == u.path = <<"stream", ToString(cast.request.movie_id)>>

\* C24: /api/cast builds the HLS playlist URL when transcode is true or any
\* subtitle is selected (an external path, or any embedded index, index 0
\* included), and the direct URL /stream/{id} otherwise.
C24_HlsIffTranscodeOrSubtitle ==
  CastBuiltURL =>
    LET b == cast.request
        selected == b.transcode \/ b.subtitle_path # NoValue \/ b.subtitle_index # <<>>
    IN /\ selected => IsHlsURL(cast.streamURL)
       /\ ~selected => IsDirectURL(cast.streamURL)

\* What the handler does: index 0 is the same as no index.
HlsIffTranscodeOrPositiveIndex ==
  CastBuiltURL =>
    LET b == cast.request
        selected == b.transcode \/ b.subtitle_path # NoValue
                    \/ (b.subtitle_index # <<>> /\ b.subtitle_index[1] > 0)
    IN /\ selected => IsHlsURL(cast.streamURL)
       /\ ~selected => IsDirectURL(cast.streamURL)

\* Embedded subtitle 0 was asked for and the renderer was told to play the
\* direct URL.
PlayingDirectWithSubtitleZero ==
  /\ cast.pc = "done" /\ cast.code = StatusOK
  /\ cast.request.subtitle_index = <<0>>
  /\ DOMAIN cast.body = {"status", "stream_url"}
  /\ IsDirectURL(cast.body.stream_url)

Is2xx(answer) == answer >= 200 /\ answer <= 299
Succeeded(i) == i \in DOMAIN soapLog /\ Is2xx(soapLog[i].answer)
CastDone == cast.pc = "done"
CastError == CastDone /\ cast.code = StatusOK /\ DOMAIN cast.body = {"error"}
CastPlaying == CastDone /\ cast.code = StatusOK /\ DOMAIN cast.body = {"status", "stream_url"}

\* C25: with an unknown movie id or device uuid /api/cast answers 404 and sends
\* no SOAP command; otherwise SetAVTransportURI is sent first and Play only
\* after SetAVTransportURI succeeded; a failure of either command gives HTTP
\* 200 with an error field, and "playing" is returned only when both succeeded.
C25_CastSequence ==
  LET b == cast.request
      asked == cast.pc # "idle" /\ cast.method = "POST" /\ b.valid
      unknown == b.movie_id \notin Library \/ b.device_uuid \notin DOMAIN devices
  IN /\ (asked /\ unknown) => soapLog = <<>>
     /\ (asked /\ unknown /\ CastDone) => cast.code = 404
     /\ (CastDone /\ cast.code # StatusOK) => soapLog = <<>>
     /\ Len(soapLog) <= 2
     /\ Len(soapLog) >= 1 => soapLog[1].action = "SetAVTransportURI"
     /\ Len(soapLog) = 2 => soapLog[2].action = "Play" /\ Succeeded(1)
     /\ (CastDone /\ \E i \in DOMAIN soapLog : ~Is2xx(soapLog[i].answer)) => CastError
     /\ CastPlaying => Succeeded(1) /\ Succeeded(2)
     /\ (asked /\ ~unknown /\ CastDone) => (CastError \/ CastPlaying)

\* SetAVTransportURI succeeded, Play was sent and failed, and the caller got
\* HTTP 200 with an error field.
C25_Witness ==
  /\ CastError
  /\ Len(soapLog) = 2 /\ Succeeded(1) /\ ~Succeeded(2)
  /\ soapLog[2].action = "Play"

\* C29: a SOAP command succeeds if and only if the renderer answers 2xx; every
\* other answer gives the error "SOAP action failed with status N".
C29_SoapSucceedsIff2xx ==
  \A i \in DOMAIN soapLog :
    LET a == soapLog[i]
    IN /\ a.err = NoError <=> Is2xx(a.answer)
       /\ (a.answer # NoAnswer /\ ~Is2xx(a.answer)) =>
            a.err = <<"SOAP action failed with status", a.answer>>

\* What the controller does: 200 alone is success.
SoapSucceedsIff200 ==
  \A i \in DOMAIN soapLog :
    LET a == soapLog[i]
    IN /\ a.err = NoError <=> a.answer = StatusOK
       /\ (a.answer # NoAnswer /\ a.answer # StatusOK) =>
            a.err = <<"SOAP action failed with status", a.answer>>

\* The renderer accepted SetAVTransportURI with 204 No Content and the cast
\* was reported as failed.
CastFailedOn204 ==
  /\ CastError /\ Len(soapLog) = 1 /\ soapLog[1].answer = 204

\* C26: for the MP4 pipe, every transcoder child that was spawned for a request
\* is killed and reaped by the time the handler returns, on every exit path
\* (client disconnect, write error, normal end of the stream).
C26_PipeChildReaped ==
  pipe.pc = "returned" => pipe.child \in {"none", "reaped"}

\* The client went away in the middle of the stream; the handler has returned
\* and the child it had started is reaped.
C26_Witness ==
  /\ pipe.pc = "returned" /\ pipe.ctxDone
  /\ pipe.child = "reaped"
  /\ pipe.sent > 0 /\ pipe.sent < pipe.produced

\* The stream ran to its end and the child is reaped as well.
PipeEndedNormally ==
  /\ pipe.pc = "returned" /\ ~pipe.ctxDone
  /\ pipe.child = "reaped" /\ pipe.sent = pipe.produced /\ pipe.sent = MaxChunks

\* A step of Stop: only Stop closes stopChan.
StopStep == ~stopped /\ stopped'

\* C27: an HLS transcoder is not stopped by the end or cancellation of the
\* playlist request that created it: when the request returns or its client
\* disconnects the process keeps running and the session stays in the map;
\* only the idle sweep or Stop (terminateSession) ends them.
C27_HlsTranscoderDetached ==
  [][/\ cancelled' # cancelled => (procs' = procs /\ sessions' = sessions)
     /\ \A r \in Requests :
          (req[r].pc # "idle" /\ req'[r].pc = "idle") =>
             (procs' = procs /\ DOMAIN sessions' = DOMAIN sessions)
     /\ \A p \in DOMAIN procs :
          (procs[p].alive /\ ~procs'[p].alive) => (SweepStep \/ StopStep)
     /\ DOMAIN sessions' # DOMAIN sessions =>
          (SweepStep \/ DOMAIN sessions \subseteq DOMAIN sessions')]_vars

\* The playlist request has been answered and its context is done; the
\* transcoder it started runs and its session is in the map.
C27_Witness ==
  /\ 1 \in cancelled
  /\ req[1].pc = "idle" /\ req[1].status = "200"
  /\ \E id \in DOMAIN sessions :
       /\ sessions[id].Process # Nil
       /\ procs[sessions[id].Process].alive
       /\ procCtx[sessions[id].Process] = Background

\* The time of d seconds written as HH:MM:SS.
Rendering(d) == HHMMSS(d \div 3600, (d % 3600) \div 60, d % 60)

\* C28: an HH:MM:SS string round-trips through parse and format,
\* format(parse(x)) = x for every well-formed x with H <= 99, and the
\* duration emitted for a movie of d seconds is the HH:MM:SS rendering of d.
C28_TimeTextRoundTrip ==
  /\ hms.pc = "sought" => hms.Target = hms.text
  /\ hms.origin = "item" => hms.text = Rendering(hms.Duration)

\* What the formatters keep: the number of seconds, and every text they
\* wrote themselves.
TimeValueRoundTrip ==
  /\ hms.pc = "sought" => parseDuration(hms.Target) = parseDuration(hms.text)
  /\ (hms.pc = "sought" /\ hms.origin = "item") => hms.Target = hms.text
  /\ (hms.pc # "idle" /\ hms.origin = "item") => parseDuration(hms.text) = hms.Duration

\* A renderer's "01:05:07" went to Seek as "1:05:07".
SoughtWithShortHours ==
  /\ hms.pc = "sought" /\ hms.origin = "renderer"
  /\ hms.text = <<"0", "1", ":", "0", "5", ":", "0", "7">>
  /\ hms.Target = <<"1", ":", "0", "5", ":", "0", "7">>

\* The movie of 3661 seconds is listed with duration "1:01:01".
ItemWithShortHours ==
  /\ hms.origin = "item" /\ hms.Duration = 3661
  /\ hms.text = <<"1", ":", "0", "1", ":", "0", "1">>

\* C30: what GetSession (and GetDevices, GetDevice) returns is a snapshot: the
\* holder of a returned session cannot modify the live entry of the session
\* map, so the handler's `session.Process = process` leaves the map as it is.
C30_ReturnedValuesAreSnapshots ==
  [][\A r \in Requests :
       (req[r].pc = "StoreProcess" /\ req'[r].pc # "StoreProcess") =>
          sessions' = sessions]_vars

\* The map entry carries the process handle a handler stored through the
\* session it was handed.
ProcessStoredInLiveEntry ==
  \E r \in Requests :
    /\ req[r].pc = "WaitPlaylist"
    /\ req[r].session \in DOMAIN sessions
    /\ sessions[req[r].session].Process # Nil

\* Where the argument `name` stands in args (0 when it does not).
ArgIndex(args, name) ==
  IF \E k \in 1..Len(args) : args[k][1] = name
  THEN CHOOSE k \in 1..Len(args) :
         args[k][1] = name /\ \A j \in 1..(k - 1) : args[j][1] # name
  ELSE 0

\* The filter chain handed to -vf, empty when there is no -vf.
ChainOf(args) ==
  LET k == ArgIndex(args, "-vf") IN IF k = 0 THEN <<>> ELSE args[k + 1][2]

\* The names of a chain's filters, and its subtitle filters.
FilterNames(chain) == [k \in 1..Len(chain) |-> chain[k][1]]
IsSubtitleFilter(f) == f[1] = "subtitles"

\* C31: in the argument vector the filter chain is [hwdownload, format=nv12
\* when accelerated], the subtitle filter, scale, [format=nv12, hwupload when
\* accelerated]; there is at most one subtitle filter, of the external file
\* when a path is given, else of the embedded track when the index is >= 0;
\* -ss stands, before -i, exactly when StartTime > 0; and the last argument
\* is <OutputPath>/playlist.m3u8 for hls and pipe:1 otherwise.
C31_ArgumentVector ==
  ffargs.pc = "built" =>
    LET o     == ffargs.opts
        args  == ffargs.args
        chain == ChainOf(args)
        subs  == SelectSeq(chain, IsSubtitleFilter)
        wantSub == o.SubtitlePath # NoPath \/ o.SubtitleIndex >= 0
        wantScale == o.Width > 0 \/ o.Height > 0
    IN /\ FilterNames(chain) =
            (IF o.UseHardwareAccel THEN <<"hwdownload", "format=nv12">> ELSE <<>>)
            \o (IF wantSub THEN <<"subtitles">> ELSE <<>>)
            \o (IF wantScale THEN <<"scale">> ELSE <<>>)
            \o (IF o.UseHardwareAccel THEN <<"format=nv12", "hwupload">> ELSE <<>>)
       /\ Len(subs) <= 1
       /\ o.SubtitlePath # NoPath => subs = <<<<"subtitles", o.SubtitlePath>>>>
       /\ (o.SubtitlePath = NoPath /\ o.SubtitleIndex >= 0) =>
             (Len(subs) = 1 /\ Len(subs[1]) = 4 /\ subs[1][4] = o.SubtitleIndex)
       /\ (ArgIndex(args, "-ss") # 0) <=> (o.StartTime > 0)
       /\ o.StartTime > 0 =>
            /\ ArgIndex(args, "-ss") < ArgIndex(args, "-i")
            /\ args[ArgIndex(args, "-ss") + 1] = <<"int", o.StartTime>>
       /\ ArgIndex(args, "-i") # 0
       /\ IF o.Format = "hls"
          THEN args[Len(args)] = <<"path", o.OutputPath \o Slash \o PlaylistFile>>
          ELSE args[Len(args)] = <<"pipe:1">>

\* An accelerated HLS transcode from a start time, with both an external
\* subtitle file and an embedded index, scaled: all four parts of the chain.
C31_Witness ==
  /\ ffargs.pc = "built"
  /\ ffargs.opts.UseHardwareAccel /\ ffargs.opts.Format = "hls"
  /\ ffargs.opts.SubtitlePath # NoPath /\ ffargs.opts.SubtitleIndex >= 0
  /\ ffargs.opts.Width > 0 /\ ffargs.opts.StartTime > 0
  /\ ffargs.opts.OutputPath # NoPath
  /\ Len(ChainOf(ffargs.args)) = 6

\* ---- C32: the shutdown of the SSDP server ------------------------------------
AllReturned ==
  ssdpRun.listen = "returned" /\ ssdpRun.sweep = "returned" /\ adv.pc = "returned"

\* A step of the sweeper's ticker case: it alone takes the tick.
DeviceSweepStep == ssdpTick /\ ~ssdpTick'

\* C32: once Stop was called or the start context was cancelled, the listener,
\* the advertiser and the sweeper all return in the end; the listener has
\* returned when more than one read deadline has passed since; and the
\* sweeper, once it returned, sweeps the registry no more.
C32_ShutdownEndsGoroutines ==
  /\ [](ssdpRun.since > ReadDeadline => ssdpRun.listen = "returned")
  /\ [][ssdpRun.sweep = "returned" => ~DeviceSweepStep]_vars
  /\ (ShutDown ~> AllReturned)

\* The start context was cancelled and Stop never called: the three have
\* returned, the listener out of a read that ran into its deadline, with a
\* device still in the registry.
C32_Witness ==
  /\ ssdpRun.ctxDone /\ ~ssdpStopChan /\ ssdpRun.connOpen
  /\ AllReturned
  /\ ssdpRun.waited = ReadDeadline
  /\ ssdpRun.since > ReadDeadline
  /\ devices # NoDevices

\* ---- C33: the subtitle index through the stream URL ---------------------------
\* C33: the subtitle index the stream handler parses from the URL /api/cast
\* built is the index of the cast request, whenever that index is 1 or more.
C33_IndexSurvivesURL ==
  (cast.streamURL # NoURL /\ DecodeIndex(cast.request.subtitle_index) >= 1) =>
     subtitleIndexOf(cast.streamURL) = DecodeIndex(cast.request.subtitle_index)

\* An index of one digit comes back as it was sent.
OneDigitIndexSurvives ==
  /\ cast.streamURL # NoURL
  /\ DecodeIndex(cast.request.subtitle_index) = 2
  /\ subtitleIndexOf(cast.streamURL) = 2

\* ---- C34: a session in use survives the sweep ---------------------------------
\* Request task r has just found the session of its movie: a playlist or a
\* segment request whose GetSession returned it.
Found(r) ==
  /\ req[r].pc = "idle"
  /\ req'[r].session # Nil
  /\ req'[r].pc \in {"check", "CopySegment"}

\* C34: a playlist or segment request that finds the session sets its last
\* access to now, and a sweep leaves alone, with its directory and its
\* process, every session whose last access is not more than 10 minutes old.
C34_AccessedSessionSurvives ==
  [][/\ \A r \in Requests : Found(r) => sessions'[req'[r].session].LastAccessed = 0
     /\ SweepStep =>
          \A id \in DOMAIN sessions :
            sessions[id].LastAccessed <= SessionTimeout =>
              /\ id \in DOMAIN sessions'
              /\ id \in DOMAIN dirs => id \in DOMAIN dirs'
              /\ id \notin terminated' \ terminated
              /\ sessions[id].Process # Nil =>
                   procs'[sessions[id].Process].alive = procs[sessions[id].Process].alive]_vars

\* The sweep has run since time last moved, on a session whose last access
\* was the whole timeout ago, and the session is there with its directory and
\* its transcoder running.
C34_Witness ==
  /\ ~tick /\ ~stopped
  /\ \E id \in DOMAIN sessions :
       /\ sessions[id].LastAccessed = SessionTimeout
       /\ id \in DOMAIN dirs
       /\ sessions[id].Process # Nil /\ procs[sessions[id].Process].alive

\* ---- C35: the writes to a session and m.mu ------------------------------------
\* The positions of a request task whose step runs between m.mu.Lock() and
\* m.mu.Unlock(): GetSession at the handler's entry, both halves of
\* CreateSession.
muLocked == {"idle", "CreateSession", "CreateSessionLocked"}

\* The step is taken with m.mu held for writing: by a request task inside
\* GetSession or CreateSession, by the sweep, or by Stop.
HoldsLock ==
  \/ SweepStep
  \/ StopStep
  \/ \E r \in Requests : req'[r] # req[r] /\ req[r].pc \in muLocked

\* The step writes a field of the live session id: s.LastAccessed =
\* time.Now(), or an assignment to s.Process.
WritesSession(id) ==
  \/ sessions'[id].Process # sessions[id].Process
  \/ sessions'[id].LastAccessed = 0 /\ sessions[id].LastAccessed # 0

\* C35: every write to a field of a session of the map is made with the
\* manager's exclusive lock held.
C35_SessionWritesUnderLock ==
  [][\A id \in DOMAIN sessions \cap DOMAIN sessions' : WritesSession(id) => HoldsLock]_vars

\* ---- C36: a known device seen again --------------------------------------------
\* The datagram is an ssdp:alive NOTIFY or a search response.
IsSighting(msg) ==
  \/ IsNotify(msg) /\ Header(msg.headers, "NTS", "nts") = ssdpAlive
  \/ IsSearchResponse(msg)

\* C36: handling an ssdp:alive NOTIFY or a search response whose uuid is in
\* the registry leaves the set of entries and every field of every entry as
\* they were, but for the last-seen time of the entry of that uuid.
C36_SightingOnlyRefreshes ==
  [][LET uuid == extractUUID(Header(ssdpIn.headers, "USN", "usn"))
     IN (HandleStep /\ IsSighting(ssdpIn) /\ uuid \in DOMAIN devices) =>
          /\ DOMAIN devices' = DOMAIN devices
          /\ \A u \in DOMAIN devices \ {uuid} : devices'[u] = devices[u]
          /\ devices'[uuid] = [devices[uuid] EXCEPT !.LastSeen = devices'[uuid].LastSeen]]_vars

\* The listener has read an ssdp:alive NOTIFY of renderer a, classified as a
\* renderer, whose NT is not the type the registry holds for a, while the
\* entry was last seen some time ago and the manual entry is there too.
C36_Witness ==
  /\ ssdpIn # NoDatagram /\ IsNotify(ssdpIn) /\ IsSighting(ssdpIn) /\ Classified(ssdpIn)
  /\ extractUUID(Header(ssdpIn.headers, "USN", "usn")) = UuidA
  /\ UuidA \in DOMAIN devices /\ ManualUUID \in DOMAIN devices
  /\ devices[UuidA].LastSeen = ssdpMaxAge
  /\ devices[UuidA].DeviceType # Header(ssdpIn.headers, "NT", "nt")

\* ---- C37: Browse with any two integers -----------------------------------------
\* C37: every Browse of "movies", whatever integers StartingIndex and
\* RequestedCount are, is answered, with as many items as NumberReturned says
\* and with the size of the library as TotalMatches.
C37_BrowseAlwaysAnswers ==
  browseRes.called =>
    /\ ~browseRes.panic
    /\ browseRes.NumberReturned >= 0
    /\ Len(browseRes.items) = browseRes.NumberReturned
    /\ browseRes.TotalMatches = Cardinality(movies)

\* A StartingIndex beyond the library is answered with no items.
BrowseBeyondLibraryAnswered ==
  /\ browseRes.called /\ ~browseRes.panic
  /\ movies # {} /\ browseReq.start > Cardinality(movies)
  /\ browseRes.NumberReturned = 0

\* ---- C38: the playlist of an unknown movie -------------------------------------
\* C38: a playlist request for a movie id that is not in the library and has
\* no session is answered 404 "Movie not found", and it inserts no session,
\* creates no directory and spawns no transcoder.
C38_UnknownMovieNotFound ==
  [][\A r \in Requests, m \in MovieIDs :
       (serveHLSPlaylist(r, m) /\ m \notin Library /\ Lookup(m) = {}) =>
          /\ req'[r].pc = "idle"
          /\ req'[r].status = "404 Movie not found"
          /\ UNCHANGED <<sessions, dirs, procs, nextID, terminated>>]_vars

\* The unknown movie was asked for while the manager held the session of
\* another movie, and it was answered 404.
C38_Witness ==
  \E r \in Requests :
    /\ req[r].movieID # Nil /\ req[r].movieID \notin Library
    /\ req[r].pc = "idle"
    /\ req[r].status = "404 Movie not found"
    /\ sessions # <<>>
    /\ Lookup(req[r].movieID) = {}

\* ---- C39: one session, one set of transcoder options --------------------------
\* serveHLSPlaylist, "Prepare transcode options": what the query q puts into
\* opts; the other fields are those of DefaultOptions(h.config).
SubtitleOptions(q) ==
  [SubtitlePath  |-> q.subtitle,
   SubtitleIndex |-> IF q.subtitle_index # <<>> THEN Atoi(q.subtitle_index) ELSE -1]

\* The transcoders started for session id.
StartedFor(id) == {p \in DOMAIN procs : procs[p].dir = id}

\* C39: a playlist request whose movie has a session uses that session and
\* starts no transcoder for it, whatever its query, so that all transcoders
\* of one session were started with the same subtitle options.
C39_SessionKeepsOptions ==
  /\ \A r \in Requests :
       req[r].pc = "StartHLSTranscode" => StartedFor(req[r].session) = {}
  /\ \A id \in DOMAIN sessions : \A p, q \in StartedFor(id) :
       SubtitleOptions(procQuery[p]) = SubtitleOptions(procQuery[q])

\* What holds of the request that finds the session at its first lookup: it
\* goes on to the playlist of that session and starts nothing.
FoundSessionIsReused ==
  [][\A r \in Requests, m \in MovieIDs :
       (serveHLSPlaylist(r, m) /\ Lookup(m) # {}) =>
          /\ req'[r].pc = "check" /\ req'[r].session \in Lookup(m)
          /\ UNCHANGED <<procs, procQuery, dirs>>]_vars

\* A request with other subtitle settings than the session's transcoder was
\* served the playlist of that session.
ReusedWithOtherQuery ==
  \E r \in Requests, id \in DOMAIN sessions :
    /\ req[r].status = "200" /\ sessions[id].MovieID = req[r].movieID
    /\ StartedFor(id) # {}
    /\ \A p \in StartedFor(id) :
         SubtitleOptions(procQuery[p]) # SubtitleOptions(hlsQuery[r])

\* Two transcoders with different subtitle options write into the directory
\* of one session.
TwoOptionsInOneSession ==
  \E id \in DOMAIN sessions : \E p, q \in StartedFor(id) :
    /\ procs[p].alive /\ procs[q].alive
    /\ SubtitleOptions(procQuery[p]) # SubtitleOptions(procQuery[q])

====
